---------------------------- MODULE Spec2Model ----------------------------
(***************************************************************************)
(* A model of the scoring, validation and caching core of the ESG company  *)
(* research assistant:                                                      *)
(*   analysis/scorer.py     SustainabilityScorer                            *)
(*   analysis/extractor.py  MetricsExtractor                                *)
(*   database/db_manager.py DatabaseManager                                 *)
(*   ui/components/sidebar.py, reports/pdf_generator.py  level functions    *)
(*                                                                          *)
(* Numbers.  The program computes with Python floats.  The model computes   *)
(* with exact decimals held as integers:                                    *)
(*   a value or a score with two decimals is counted in hundredths          *)
(*     (80.0 is 8000, 84.99 is 8499),                                       *)
(*   a confidence or a weight with two decimals is counted in hundredths    *)
(*     (0.2 is 20, 1.0 is 100),                                             *)
(*   the unrounded final score is counted in ten-thousandths                *)
(*     (71.5 is 715000), the resolution of score * weight.                  *)
(* round(x, 2) rounds to the nearest hundredth; when x lies exactly half    *)
(* way, the float that stands for x lies a little under or a little over    *)
(* it, so the build may round either way: the variable tieUp is that        *)
(* choice.  Comparisons are made on the exact decimal.                      *)
(***************************************************************************)
EXTENDS Integers, Sequences, FiniteSets, TLC

VARIABLES
    metrics,      \* scorer: the metric list handed to calculate_final_score
    result,       \* scorer: what calculate_final_score returned (or NotRun)
    tieUp,        \* scorer: direction round() takes on an exact half
    catResult,    \* scorer: what calculate_category_score returned (or NotRun)
    recommendations, \* scorer: what get_recommendations returned (or NotRun)
    response,     \* extractor: what the LLM call produced
    validated,    \* extractor: what _validate_metrics returned (or NotRun)
    extracted,    \* extractor: what extract_metrics returned (or NotRun)
    now,                    \* database: the clock datetime.now() reads, in days
    companies,              \* database: the rows of table companies
    research_sources,       \* database: the rows of table research_sources, oldest first
    sustainability_metrics, \* database: the rows of table sustainability_metrics
    sustainability_scores,  \* database: the rows of table sustainability_scores
    next_company_id,        \* database: the id the next new company row gets
    cached,                 \* database: what the call of get_recent_analysis just made returned
    history,                \* database: the save_* call just made, how it ended, and the
                            \*           tables as they were before it
    score,        \* levels: the score handed to the three level functions
    levels,       \* levels: what the three level functions returned
    chat,         \* chat: the run of app.py's script on the prompt last submitted
    chat_messages,    \* session: st.session_state.chat_messages
    companies_cache,  \* session: what st.cache_data holds for get_companies_from_db
    research_result   \* research: the answers of the search and scrape services,
                      \*           and what research_company returned (or NotRun)

scorerVars == <<metrics, result, catResult, recommendations>>
extractVars == <<response, validated, extracted>>
tables == <<companies, research_sources, sustainability_metrics, sustainability_scores,
            next_company_id>>
dbVars == <<now, tables, cached, history>>
levelVars == <<score, levels>>
chatVars == <<chat>>
sessionVars == <<chat_messages, companies_cache>>
researchVars == <<research_result>>

vars == <<scorerVars, tieUp, extractVars, dbVars, levelVars, chatVars, sessionVars,
         researchVars>>

-----------------------------------------------------------------------------
(* Sequence helpers *)

RECURSIVE SumSeq(_)
SumSeq(s) == IF s = <<>> THEN 0 ELSE Head(s) + SumSeq(Tail(s))

Map(s, Op(_)) == [i \in 1..Len(s) |-> Op(s[i])]

Range(s) == {s[i] : i \in 1..Len(s)}

\* all sequences over S of length at most n
SeqsUpTo(S, n) == UNION {[1..k -> S] : k \in 0..n}

\* Python's round(num/den, 2) when num/den is counted in hundredths:
\* the nearest integer, an exact half going the way tieUp says.
Round2(num, den) ==
    LET q == num \div den
        r == num % den
    IN  IF 2 * r < den THEN q
        ELSE IF 2 * r > den THEN q + 1
        ELSE IF tieUp THEN q + 1 ELSE q

-----------------------------------------------------------------------------
(* analysis/scorer.py *)

Categories == {"Environmental", "Social", "Governance"}

\* a slip in the weights: Environmental and Social exchanged
CATEGORY_WEIGHTS_swapped ==
    << [category |-> "Environmental", weight |-> 35],
       [category |-> "Social",        weight |-> 40],
       [category |-> "Governance",    weight |-> 25] >>

\* CATEGORY_WEIGHTS.items(), in the dict's order; weights in hundredths
CATEGORY_WEIGHTS ==
    << [category |-> "Environmental", weight |-> 40],
       [category |-> "Social",        weight |-> 35],
       [category |-> "Governance",    weight |-> 25] >>

\* SCORE_LEVELS.items(), in the dict's order; bounds in whole points
SCORE_LEVELS ==
    << [level |-> "Excellent", min_score |-> 85, max_score |-> 100],
       [level |-> "Good",      min_score |-> 70, max_score |-> 84],
       [level |-> "Fair",      min_score |-> 50, max_score |-> 69],
       [level |-> "Poor",      min_score |-> 30, max_score |-> 49],
       [level |-> "Very Poor", min_score |-> 0,  max_score |-> 29] >>

\* ten-thousandths in one whole point
PointTT == 100 * 100

\* A Python exception leaving a function, and a normal return
Raise(e) == [exc |-> e]
Raised(r) == r.exc # "None"

\* dict.get(key, default)
Get(m, key, default) == IF key \in DOMAIN m THEN m[key] ELSE default

\* SustainabilityScorer._get_score_level; score in ten-thousandths
RECURSIVE LevelFrom(_, _)
LevelFrom(i, s) ==
    IF i > Len(SCORE_LEVELS) THEN "Unknown"
    ELSE IF /\ SCORE_LEVELS[i].min_score * PointTT <= s
            /\ s <= SCORE_LEVELS[i].max_score * PointTT
         THEN SCORE_LEVELS[i].level
         ELSE LevelFrom(i + 1, s)

Scorer_get_score_level(s) == LevelFrom(1, s)

\* a slip in step 1: the filter left out
FilterCategory_all(ms, category) == ms

\* calculate_category_score, step 1: the metrics of the target category
FilterCategory(ms, category) == SelectSeq(ms, LAMBDA m : m.category = category)

\* calculate_category_score, step 3: the two running sums of the loop
total_weighted_score(category_metrics) ==
    LET Weighted(m) == Get(m, "value", 5000) * Get(m, "confidence", 50)
    IN  SumSeq(Map(category_metrics, Weighted))

total_confidence(category_metrics) ==
    LET Conf(m) == Get(m, "confidence", 50)
    IN  SumSeq(Map(category_metrics, Conf))

\* a slip in step 4: the plain mean of the values, confidence ignored
category_score_unweighted(category_metrics) ==
    LET Value(m) == Get(m, "value", 5000)
    IN  IF total_confidence(category_metrics) > 0
        THEN Round2(SumSeq(Map(category_metrics, Value)), Len(category_metrics))
        ELSE 5000

\* a slip in step 4: zero, not the neutral 50.0, when no confidence is left
category_score_zero_fallback(category_metrics) ==
    IF total_confidence(category_metrics) > 0
    THEN Round2(total_weighted_score(category_metrics),
                total_confidence(category_metrics))
    ELSE 0

\* calculate_category_score, step 4 and the rounding of step 6: the score
category_score(category_metrics) ==
    IF total_confidence(category_metrics) > 0
    THEN Round2(total_weighted_score(category_metrics),
                total_confidence(category_metrics))
    ELSE 5000

\* calculate_category_score, step 4 and the rounding of step 6: the confidence
avg_confidence(category_metrics) ==
    IF total_confidence(category_metrics) > 0
    THEN Round2(total_confidence(category_metrics), Len(category_metrics))
    ELSE 0

\* SustainabilityScorer.calculate_category_score
calculate_category_score(ms, category) ==
    IF \E i \in 1..Len(ms) : "category" \notin DOMAIN ms[i]
    THEN Raise("KeyError")
    ELSE
    LET category_metrics == FilterCategory(ms, category)
        Detail(m) == [name |-> m.metric_name, value |-> m.value,
                      confidence |-> m.confidence]
    IN  IF category_metrics = <<>>
        THEN [exc |-> "None", score |-> 5000, confidence |-> 0,
              metric_count |-> 0, metrics |-> <<>>]
        ELSE IF \E i \in 1..Len(category_metrics) :
                   {"metric_name", "value", "confidence"}
                       \ DOMAIN category_metrics[i] # {}
        THEN Raise("KeyError")
        ELSE [exc |-> "None",
              score |-> category_score(category_metrics),
              confidence |-> avg_confidence(category_metrics),
              metric_count |-> Len(category_metrics),
              metrics |-> Map(category_metrics, Detail)]

\* a slip in step 6: the score rounded to one decimal
category_score_3dp_round1(category_metrics) ==
    IF total_confidence(category_metrics) > 0
    THEN 100 * Round2(total_weighted_score(category_metrics),
                      100 * total_confidence(category_metrics))
    ELSE 50000

\* calculate_category_score, step 4 and the rounding of step 6, for values
\* with three decimals, counted in thousandths (the validator hands on two
\* decimals, another caller may hand in more): the score, in thousandths
category_score_3dp(category_metrics) ==
    IF total_confidence(category_metrics) > 0
    THEN 10 * Round2(total_weighted_score(category_metrics),
                     10 * total_confidence(category_metrics))
    ELSE 50000

\* SustainabilityScorer.calculate_category_score on complete records with
\* values in thousandths
calculate_category_score_3dp(ms, category) ==
    LET category_metrics == FilterCategory(ms, category)
        Detail(m) == [name |-> m.metric_name, value |-> m.value,
                      confidence |-> m.confidence]
    IN  IF category_metrics = <<>>
        THEN [exc |-> "None", score |-> 50000, confidence |-> 0,
              metric_count |-> 0, metrics |-> <<>>]
        ELSE [exc |-> "None",
              score |-> category_score_3dp(category_metrics),
              confidence |-> avg_confidence(category_metrics),
              metric_count |-> Len(category_metrics),
              metrics |-> Map(category_metrics, Detail)]

\* the key _build_component_scores makes of a metric name:
\* name.lower().replace(' ', '_').replace('and', '').replace('__', '_').strip('_')
metric_key(name) ==
    CASE name = "A" -> "a"
      [] name = "B" -> "b"
      [] name = "Carbon" -> "carbon"
      [] name = "Carbon Emissions Reduction" -> "carbon_emissions_reduction"
      [] name = "Renewable Energy Usage" -> "renewable_energy_usage"
      [] name = "Waste Management" -> "waste_management"
      [] name = "Water Conservation" -> "water_conservation"
      [] name = "Sustainable Materials" -> "sustainable_materials"
      [] name = "Labor Practices" -> "labor_practices"
      [] name = "Diversity and Inclusion" -> "diversity_inclusion"
      [] name = "Community Impact" -> "community_impact"
      [] name = "Human Rights" -> "human_rights"
      [] name = "Employee Well-being" -> "employee_well-being"
      [] name = "Board Independence" -> "board_independence"
      [] name = "Ethics and Compliance" -> "ethics_compliance"
      [] name = "Transparency and Reporting" -> "transparency_reporting"
      [] name = "Risk Management" -> "risk_management"
      [] name = "Stakeholder Engagement" -> "stakeholder_engagement"

\* f"{category.lower()}_overall"
overall_key(category) ==
    CASE category = "Environmental" -> "environmental_overall"
      [] category = "Social" -> "social_overall"
      [] category = "Governance" -> "governance_overall"

\* SustainabilityScorer._build_component_scores: the entries in the order
\* they are written, then the dict they leave (the last write of a key wins)
RECURSIVE ComponentEntries(_, _)
ComponentEntries(category_scores, i) ==
    IF i > Len(CATEGORY_WEIGHTS) THEN <<>>
    ELSE LET category == CATEGORY_WEIGHTS[i].category
             data == category_scores[category]
             Entry(m) == [key |-> metric_key(m.name), value |-> m.value]
         IN  << [key |-> overall_key(category), value |-> data.score] >>
             \o Map(data.metrics, Entry)
             \o ComponentEntries(category_scores, i + 1)

build_component_scores(category_scores) ==
    LET entries == ComponentEntries(category_scores, 1)
        Last(k) == CHOOSE i \in 1..Len(entries) :
                      /\ entries[i].key = k
                      /\ \A j \in (i + 1)..Len(entries) : entries[j].key # k
    IN  [k \in {entries[i].key : i \in 1..Len(entries)} |-> entries[Last(k)].value]

\* SustainabilityScorer.calculate_final_score.  The 'calculated_at' stamp of
\* the result is left out: nothing reads it (save_scores stamps the row itself).
calculate_final_score(ms) ==
    LET data(i) == calculate_category_score(ms, CATEGORY_WEIGHTS[i].category)
        idx == 1..Len(CATEGORY_WEIGHTS)
    IN  IF \E i \in idx : data(i).exc # "None"
        THEN Raise("KeyError")
        ELSE
        LET category_scores ==
                [c \in Categories |->
                    data(CHOOSE i \in idx : CATEGORY_WEIGHTS[i].category = c)]
            weighted_sum ==
                SumSeq([i \in idx |-> data(i).score * CATEGORY_WEIGHTS[i].weight])
            total_weight == SumSeq([i \in idx |-> CATEGORY_WEIGHTS[i].weight])
            \* in ten-thousandths; the division is exact while the weights sum to 1.0
            final_score == IF total_weight > 0
                           THEN (weighted_sum * 100) \div total_weight
                           ELSE 50 * PointTT
            sum_confidence == SumSeq([i \in idx |-> data(i).confidence])
        IN  [exc |-> "None",
             final_score |-> Round2(final_score, 100),
             score_level |-> Scorer_get_score_level(final_score),
             confidence |-> Round2(sum_confidence, Len(CATEGORY_WEIGHTS)),
             environmental_score |-> category_scores["Environmental"].score,
             social_score |-> category_scores["Social"].score,
             governance_score |-> category_scores["Governance"].score,
             category_breakdown |-> category_scores,
             component_scores |-> build_component_scores(category_scores)]

Min(a, b) == IF a < b THEN a ELSE b

\* f"{x:.1f}": x, counted in hundredths, shown in tenths
Format1(x) == Round2(x, 10)

\* get_recommendations, the body of the loop for one category: the Priority
\* line if the category score is below 60, then the Focus lines of the first
\* two metrics whose value is below 50.  A line is held as its parts.
CategoryRecommendations(scores, category) ==
    LET category_data == scores.category_breakdown[category]
        low_metrics == SelectSeq(category_data.metrics, LAMBDA m : m.value < 5000)
        priority == IF category_data.score < 6000
                    THEN << [line |-> "Priority", category |-> category,
                             shown |-> Format1(category_data.score)] >>
                    ELSE <<>>
    IN  priority \o
        [i \in 1..Min(2, Len(low_metrics)) |->
            [line |-> "Focus on", name |-> low_metrics[i].name, category |-> category,
             shown |-> Format1(low_metrics[i].value)]]

\* a slip: the overall line appended where the others are, not inserted in front
AllRecommendations_header_last(scores) ==
    LET body == CategoryRecommendations(scores, "Environmental")
                \o CategoryRecommendations(scores, "Social")
                \o CategoryRecommendations(scores, "Governance")
    IN  IF scores.final_score < 5000 THEN body \o << [line |-> "Critical"] >>
        ELSE IF scores.final_score < 7000 THEN body \o << [line |-> "Important"] >>
        ELSE body

\* get_recommendations up to its return: the lines of the three categories,
\* with the overall line inserted at position 0
AllRecommendations(scores) ==
    LET body == CategoryRecommendations(scores, "Environmental")
                \o CategoryRecommendations(scores, "Social")
                \o CategoryRecommendations(scores, "Governance")
    IN  IF scores.final_score < 5000 THEN << [line |-> "Critical"] >> \o body
        ELSE IF scores.final_score < 7000 THEN << [line |-> "Important"] >> \o body
        ELSE body

\* a slip: the list returned whole
get_recommendations_untruncated(scores) ==
    [exc |-> "None", ret |-> AllRecommendations(scores)]

\* SustainabilityScorer.get_recommendations: recommendations[:5]
get_recommendations(scores) ==
    LET all == AllRecommendations(scores)
    IN  [exc |-> "None", ret |-> SubSeq(all, 1, Min(5, Len(all)))]

-----------------------------------------------------------------------------
(* The presentation side's own level functions; score in ten-thousandths *)

\* ui/components/sidebar.py get_score_level
get_score_level(s) ==
    IF s >= 85 * PointTT THEN "Excellent"
    ELSE IF s >= 70 * PointTT THEN "Good"
    ELSE IF s >= 50 * PointTT THEN "Fair"
    ELSE IF s >= 30 * PointTT THEN "Poor"
    ELSE "Very Poor"

\* reports/pdf_generator.py PDFReportGenerator._get_score_level
PDF_get_score_level(s) ==
    IF s >= 85 * PointTT THEN "Excellent"
    ELSE IF s >= 70 * PointTT THEN "Good"
    ELSE IF s >= 50 * PointTT THEN "Fair"
    ELSE IF s >= 30 * PointTT THEN "Poor"
    ELSE "Very Poor"

-----------------------------------------------------------------------------
(* analysis/extractor.py *)
(* What json.loads can put in a field: a number (counted in thousandths, so  *)
(* that the rounding to two decimals has work to do), NaN, an integer too    *)
(* large for a float, a string, null, a list.  An entry of the metrics list  *)
(* is a dict of such fields, or something that is no dict at all.            *)

JNum(x) == [t |-> "number", x |-> x]
JStr(str) == [t |-> "string", s |-> str]
JNaN == [t |-> "nan"]
JBigInt == [t |-> "bigint"]
JNull == [t |-> "null"]
JList == [t |-> "list"]

JDict(items) == [type |-> "dict", items |-> items]
JNonDict(type) == [type |-> type]

\* float(s) for the strings of the model that Python parses, in thousandths
StrToFloat == [s \in {"85", "150"} |-> IF s = "85" THEN 85000 ELSE 150000]

\* float(x): a finite float, nan, or the exception float() raises
Float(v) ==
    CASE v.t = "number" -> [exc |-> "None", nan |-> FALSE, x |-> v.x]
      [] v.t = "nan" -> [exc |-> "None", nan |-> TRUE, x |-> 0]
      [] v.t = "string" ->
            IF v.s \in DOMAIN StrToFloat
            THEN [exc |-> "None", nan |-> FALSE, x |-> StrToFloat[v.s]]
            ELSE Raise("ValueError")
      [] v.t = "bigint" -> Raise("OverflowError")
      [] v.t \in {"null", "list"} -> Raise("TypeError")

\* a slip in the clamp: the upper bound left out
Clamp_no_upper(f, hi) ==
    IF f.nan THEN hi ELSE IF f.x > 0 THEN f.x ELSE 0

\* max(0, min(hi, value)): min keeps hi unless value < hi, and nan < hi is false
Clamp(f, hi) ==
    LET low == IF ~f.nan /\ f.x < hi THEN f.x ELSE hi
    IN  IF low > 0 THEN low ELSE 0

\* the try/except around one numeric field of _validate_metrics, then the
\* round(.., 2) of the append: the cleaned number in hundredths, or the
\* exception that the except clause does not catch
CleanNumber(v, hi, default) ==
    LET f == Float(v)
    IN  IF f.exc = "None" THEN [exc |-> "None", x |-> Round2(Clamp(f, hi), 10)]
        ELSE IF f.exc \in {"ValueError", "TypeError"} THEN [exc |-> "None", x |-> default]
        ELSE Raise(f.exc)

\* the keys of MetricsExtractor.CATEGORY_WEIGHTS
Extractor_CATEGORY_WEIGHTS == {"Environmental", "Social", "Governance"}

required_fields == <<"category", "metric_name", "value", "confidence">>

\* a slip in the category check: any string passes
RecognisedCategory_any_string(c) == c.t = "string"

\* metric['category'] in self.CATEGORY_WEIGHTS, for a hashable category
RecognisedCategory(c) ==
    /\ c.t = "string"
    /\ c.s \in Extractor_CATEGORY_WEIGHTS

\* a slip in the loop: the entry appended as it came, its fields neither
\* checked nor cleaned
ValidateOne_unchecked(metric) ==
    IF metric.type = "dict" /\ "category" \in DOMAIN metric.items
                            /\ metric.items.category.t = "string"
    THEN [exc |-> "None", out |-> << [category |-> metric.items.category.s] >>]
    ELSE [exc |-> "None", out |-> <<>>]

\* the body of _validate_metrics' loop for one entry: the records it appends
\* (none or one), or the exception it raises
ValidateOne(metric) ==
    IF metric.type \in {"int", "NoneType"}
    THEN Raise("TypeError")                       \* 'k in metric' on a non-container
    ELSE IF metric.type \in {"list", "str"}
    THEN [exc |-> "None", out |-> <<>>]           \* 'k in metric' is False
    ELSE IF \E i \in 1..Len(required_fields) : required_fields[i] \notin DOMAIN metric.items
    THEN [exc |-> "None", out |-> <<>>]
    ELSE IF metric.items.category.t = "list"
    THEN Raise("TypeError")                       \* unhashable key looked up in a dict
    ELSE IF ~RecognisedCategory(metric.items.category)
    THEN [exc |-> "None", out |-> <<>>]
    ELSE LET value == CleanNumber(metric.items.value, 100000, 5000)
             confidence == CleanNumber(metric.items.confidence, 1000, 50)
         IN  IF value.exc # "None" THEN Raise(value.exc)
             ELSE IF confidence.exc # "None" THEN Raise(confidence.exc)
             ELSE [exc |-> "None",
                   out |-> << [category |-> metric.items.category.s,
                               metric_name |-> metric.items.metric_name.s,
                               value |-> value.x,
                               confidence |-> confidence.x] >>]

\* MetricsExtractor._validate_metrics
RECURSIVE ValidateFrom(_, _, _)
ValidateFrom(ms, i, acc) ==
    IF i > Len(ms) THEN [exc |-> "None", ret |-> acc]
    ELSE LET one == ValidateOne(ms[i])
         IN  IF one.exc # "None" THEN Raise(one.exc)
             ELSE ValidateFrom(ms, i + 1, acc \o one.out)

validate_metrics(ms) == ValidateFrom(ms, 1, <<>>)

\* prompts/extraction_prompts.py METRICS_SCHEMA.items(), in the dict's order
METRICS_SCHEMA ==
    << [category |-> "Environmental",
        names |-> <<"Carbon Emissions Reduction", "Renewable Energy Usage",
                    "Waste Management", "Water Conservation",
                    "Sustainable Materials">>],
       [category |-> "Social",
        names |-> <<"Labor Practices", "Diversity and Inclusion",
                    "Community Impact", "Human Rights", "Employee Well-being">>],
       [category |-> "Governance",
        names |-> <<"Board Independence", "Ethics and Compliance",
                    "Transparency and Reporting", "Risk Management",
                    "Stakeholder Engagement">>] >>

\* MetricsExtractor._get_default_metrics
RECURSIVE DefaultsFrom(_)
DefaultsFrom(i) ==
    IF i > Len(METRICS_SCHEMA) THEN <<>>
    ELSE [j \in 1..Len(METRICS_SCHEMA[i].names) |->
             [category |-> METRICS_SCHEMA[i].category,
              metric_name |-> METRICS_SCHEMA[i].names[j],
              value |-> 5000, confidence |-> 10]]
         \o DefaultsFrom(i + 1)

\* a slip in the default set: the first category of the schema left out
get_default_metrics_partial == DefaultsFrom(2)

get_default_metrics == DefaultsFrom(1)

\* MetricsExtractor.extract_metrics, from the LLM call on: the call raises, or
\* returns text that json.loads rejects, or JSON that is no object (data.get
\* raises AttributeError), or a JSON object with or without a 'metrics' list
extract_metrics(resp) ==
    CASE resp.kind = "call_raises" -> get_default_metrics
      [] resp.kind = "not_json" -> get_default_metrics
      [] resp.kind = "json_not_object" -> get_default_metrics
      [] resp.kind = "json_without_metrics" -> validate_metrics(<<>>).ret
      [] resp.kind = "json" ->
            LET v == validate_metrics(resp.metrics)
            IN  IF v.exc = "None" THEN v.ret ELSE get_default_metrics

-----------------------------------------------------------------------------
(* database/db_manager.py *)
(* A table is the sequence of its rows, oldest first.  Times are counted in *)
(* days, the unit of the cache window, and only research_date, the one      *)
(* stamp the program computes with, is kept in its row.  The stamps         *)
(* scraped_at, extracted_at and calculated_at are read by ORDER BY alone:   *)
(* datetime.now() never runs backwards and differs between two calls, so    *)
(* the order of these stamps is the order in which the rows were inserted,  *)
(* and the model keeps that order in place of the stamps.                   *)

None == [py |-> "None"]

\* the rows of a table that satisfy a WHERE clause, and those that do not
Where(table, Test(_)) == SelectSeq(table, Test)

\* DatabaseManager.get_company
get_company(company_name) ==
    IF \E c \in companies : c.name = company_name
    THEN CHOOSE c \in companies : c.name = company_name
    ELSE None

\* DatabaseManager.get_research_sources: ORDER BY scraped_at DESC
\* (the rows of one company carry the stamps of one save_research call, in
\* the order of its loop)
Reverse(rows) == [i \in 1..Len(rows) |-> rows[Len(rows) + 1 - i]]

get_research_sources(company_id) ==
    Reverse(Where(research_sources, LAMBDA r : r.company_id = company_id))

\* alphabetical rank of the category and metric names the model stores:
\* the categories, the names of METRICS_SCHEMA, and 'Carbon'
NameRank(str) ==
    CASE str = "Board Independence" -> 1
      [] str = "Carbon" -> 2
      [] str = "Carbon Emissions Reduction" -> 3
      [] str = "Community Impact" -> 4
      [] str = "Diversity and Inclusion" -> 5
      [] str = "Employee Well-being" -> 6
      [] str = "Environmental" -> 7
      [] str = "Ethics and Compliance" -> 8
      [] str = "Governance" -> 9
      [] str = "Human Rights" -> 10
      [] str = "Labor Practices" -> 11
      [] str = "Renewable Energy Usage" -> 12
      [] str = "Risk Management" -> 13
      [] str = "Social" -> 14
      [] str = "Stakeholder Engagement" -> 15
      [] str = "Sustainable Materials" -> 16
      [] str = "Transparency and Reporting" -> 17
      [] str = "Waste Management" -> 18
      [] str = "Water Conservation" -> 19

\* row a comes before row b under ORDER BY category, metric_name
MetricBefore(a, b) ==
    \/ NameRank(a.category) < NameRank(b.category)
    \/ /\ a.category = b.category
       /\ NameRank(a.metric_name) < NameRank(b.metric_name)

\* rows sorted by insertion into an ordered sequence (a stable sort)
RECURSIVE SortMetrics(_)
SortMetrics(rows) ==
    IF rows = <<>> THEN <<>>
    ELSE LET sorted == SortMetrics(SubSeq(rows, 1, Len(rows) - 1))
             last == rows[Len(rows)]
             k == Cardinality({i \in 1..Len(sorted) : ~MetricBefore(last, sorted[i])})
         IN  SubSeq(sorted, 1, k) \o <<last>> \o SubSeq(sorted, k + 1, Len(sorted))

\* DatabaseManager.get_metrics: ORDER BY category, metric_name
get_metrics(company_id) ==
    SortMetrics(Where(sustainability_metrics, LAMBDA r : r.company_id = company_id))

\* DatabaseManager.get_latest_score: ORDER BY calculated_at DESC LIMIT 1
get_latest_score(company_id) ==
    LET rows == Where(sustainability_scores, LAMBDA r : r.company_id = company_id)
    IN  IF rows = <<>> THEN None
        ELSE rows[Len(rows)]

\* a slip in the freshness test: the comparison turned round
IsStale_reversed(research_date, days) == research_date > now - days

\* research_date < datetime.now() - timedelta(days=days)
IsStale(research_date, days) == research_date < now - days

\* DatabaseManager.get_recent_analysis
get_recent_analysis(company_name, days) ==
    LET company == get_company(company_name)
    IN  IF company = None THEN None
        ELSE IF IsStale(company.research_date, days) THEN None
        ELSE LET sources == get_research_sources(company.id)
                 ms == get_metrics(company.id)
                 scores == get_latest_score(company.id)
             IN  IF sources = <<>> \/ scores = None THEN None
                 ELSE [company |-> company, sources |-> sources,
                       metrics |-> ms, scores |-> scores]

\* the tables at one moment
Snapshot ==
    [companies |-> companies, research_sources |-> research_sources,
     sustainability_metrics |-> sustainability_metrics,
     sustainability_scores |-> sustainability_scores,
     next_company_id |-> next_company_id]

\* a slip: the company found too old is dropped from the table
get_recent_analysis_evicting(company_name, days) ==
    [Snapshot EXCEPT
       !.companies = {c \in companies :
                         ~(c.name = company_name /\ IsStale(c.research_date, days))}]

\* the tables as DatabaseManager.get_recent_analysis leaves them: get_company,
\* get_research_sources, get_metrics and get_latest_score execute one SELECT
\* each, and the connection of each commits nothing
get_recent_analysis_tables(company_name, days) == Snapshot

\* a slip at the end of the block: what was written stays, exception or not
WithConnection_keeps_partial_writes(before, after, exc) == after

\* 'with self._get_connection() as conn:' around the statements of a save:
\* the connection commits when the block ends normally and rolls back when
\* an exception leaves it
WithConnection(before, after, exc) == IF exc = "None" THEN after ELSE before

\* how many entries of a list a loop passes before one lacks a key it reads
ReadableBefore(list, keys) ==
    LET unreadable == {i \in 1..Len(list) : ~(keys \subseteq DOMAIN list[i])}
    IN  IF unreadable = {} THEN Len(list)
        ELSE (CHOOSE i \in unreadable : \A j \in unreadable : i <= j) - 1

\* DatabaseManager.save_research, the statements of its block as far as they
\* run: the tables they leave, the id returned, and the exception that
\* stopped them
save_research(company_name, sources) ==
    LET old == get_company(company_name)
        company_id == IF old = None THEN next_company_id ELSE old.id
        n == ReadableBefore(sources, {"url", "content"})
    IN  [exc |-> IF n = Len(sources) THEN "None" ELSE "KeyError",
         ret |-> company_id,
         companies |-> {c \in companies : c.name # company_name}
                       \cup {[id |-> company_id, name |-> company_name,
                              research_date |-> now]},
         next_company_id |-> IF old = None THEN next_company_id + 1
                             ELSE next_company_id,
         research_sources |->
             Where(research_sources, LAMBDA r : r.company_id # company_id)
             \o [i \in 1..n |->
                   [company_id |-> company_id, url |-> sources[i].url,
                    content |-> sources[i].content]]]

\* a slip in save_metrics: the DELETE left out
save_metrics_without_delete(company_id, ms) ==
    LET n == ReadableBefore(ms, {"category", "metric_name", "value", "confidence"})
    IN  [exc |-> IF n = Len(ms) THEN "None" ELSE "KeyError",
         sustainability_metrics |->
             sustainability_metrics
             \o [i \in 1..n |->
                   [company_id |-> company_id, category |-> ms[i].category,
                    metric_name |-> ms[i].metric_name, value |-> ms[i].value,
                    confidence |-> ms[i].confidence]]]

\* DatabaseManager.save_metrics, the statements of its block as far as they run
save_metrics(company_id, ms) ==
    LET n == ReadableBefore(ms, {"category", "metric_name", "value", "confidence"})
    IN  [exc |-> IF n = Len(ms) THEN "None" ELSE "KeyError",
         sustainability_metrics |->
             Where(sustainability_metrics, LAMBDA r : r.company_id # company_id)
             \o [i \in 1..n |->
                   [company_id |-> company_id, category |-> ms[i].category,
                    metric_name |-> ms[i].metric_name, value |-> ms[i].value,
                    confidence |-> ms[i].confidence]]]

\* a slip in save_scores: the company's row overwritten, not a row added
save_scores_in_place(company_id, scores) ==
    IF "final_score" \notin DOMAIN scores
    THEN [exc |-> "KeyError", sustainability_scores |-> sustainability_scores]
    ELSE [exc |-> "None",
          sustainability_scores |->
              Append(Where(sustainability_scores, LAMBDA r : r.company_id # company_id),
                     [company_id |-> company_id,
                      final_score |-> scores.final_score,
                      environmental_score |-> Get(scores, "environmental_score", None),
                      social_score |-> Get(scores, "social_score", None),
                      governance_score |-> Get(scores, "governance_score", None)])]

\* DatabaseManager.save_scores, the statements of its block as far as they
\* run.  The component_scores_json column is left out: nothing modelled reads it.
save_scores(company_id, scores) ==
    IF "final_score" \notin DOMAIN scores
    THEN [exc |-> "KeyError", sustainability_scores |-> sustainability_scores]
    ELSE [exc |-> "None",
          sustainability_scores |->
              Append(sustainability_scores,
                     [company_id |-> company_id,
                      final_score |-> scores.final_score,
                      environmental_score |-> Get(scores, "environmental_score", None),
                      social_score |-> Get(scores, "social_score", None),
                      governance_score |-> Get(scores, "governance_score", None)])]

-----------------------------------------------------------------------------
(* Each specification below exercises one part of the program and leaves   *)
(* the variables of the other parts at rest.                                *)

NotRun == [exc |-> "NotRun"]
Returned(r) == r.exc = "None"

LevelIdle == /\ score = 0
             /\ levels = NotRun

\* no prompt submitted yet: the script waits at st.chat_input
ChatIdle == chat = [pc |-> "chat_input", intent |-> "None", needs_analysis |-> <<>>,
                    ran |-> <<>>]

\* a session as initialize_chat_state leaves it, the welcome message its only
\* message, and nothing cached yet for get_companies_from_db
SessionIdle == /\ chat_messages = << [role |-> "assistant", content |-> "welcome"] >>
               /\ companies_cache = NotRun

ResearchIdle == research_result = NotRun

ScoreIdle == /\ metrics = <<>>
             /\ result = NotRun
             /\ catResult = NotRun
             /\ recommendations = NotRun
             /\ tieUp = FALSE

ExtractIdle == /\ response = [kind |-> "call_raises"]
               /\ validated = NotRun
               /\ extracted = NotRun

\* the database as _initialize_database leaves a new file: every table empty
DbEmpty == /\ now = 0
           /\ companies = {}
           /\ research_sources = <<>>
           /\ sustainability_metrics = <<>>
           /\ sustainability_scores = <<>>
           /\ next_company_id = 1
           /\ cached = NotRun
           /\ history = NotRun

-----------------------------------------------------------------------------
(* Inputs of the scorer *)

Metric(c, n, v, cf) == [category |-> c, metric_name |-> n, value |-> v, confidence |-> cf]

\* The metric records the lists handed to the scorer are made of:
\* the extremes at full confidence in every category, the records of the
\* documented examples, a zero-confidence record, a pair whose weighted mean
\* is an exact half of a hundredth, and a record without 'confidence'.
MetricPool ==
    { Metric("Environmental", "Carbon", 0, 100),
      Metric("Environmental", "Carbon", 10000, 100),
      Metric("Social", "Labor Practices", 0, 100),
      Metric("Social", "Labor Practices", 10000, 100),
      Metric("Governance", "Board Independence", 0, 100),
      Metric("Governance", "Board Independence", 10000, 100),
      Metric("Environmental", "A", 8000, 20),
      Metric("Environmental", "B", 4000, 80),
      Metric("Environmental", "B", 8001, 20),
      Metric("Environmental", "Carbon", 8000, 100),
      Metric("Environmental", "Carbon", 8000, 0),
      Metric("Social", "Labor Practices", 7000, 100),
      Metric("Social", "Diversity and Inclusion", 2000, 50),
      Metric("Governance", "Board Independence", 6000, 100),
      [category |-> "Social", metric_name |-> "Labor Practices", value |-> 3000] }

\* longest metric list handed to the scorer
MaxMetrics == 3

InitScore ==
    /\ metrics \in SeqsUpTo(MetricPool, MaxMetrics)
    /\ result = NotRun
    /\ catResult = NotRun
    /\ recommendations = NotRun
    /\ tieUp \in BOOLEAN
    /\ ExtractIdle
    /\ DbEmpty
    /\ LevelIdle
    /\ ChatIdle
    /\ SessionIdle
    /\ ResearchIdle

\* the category names calculate_category_score is called with: the three
\* categories and a name no metric carries
TargetCategories == Categories \cup {"Other"}

\* scorer.calculate_category_score(metrics, category)
CalculateCategoryScore(category) ==
    /\ result = NotRun
    /\ catResult = NotRun
    /\ catResult' = [category |-> category,
                     ret |-> calculate_category_score(metrics, category)]
    /\ UNCHANGED <<metrics, result, recommendations, tieUp, extractVars, dbVars,
                   levelVars, chatVars, sessionVars,
                   researchVars>>

\* scorer.calculate_final_score(metrics)
CalculateFinalScore ==
    /\ result = NotRun
    /\ catResult = NotRun
    /\ result' = calculate_final_score(metrics)
    /\ UNCHANGED <<metrics, catResult, recommendations, tieUp, extractVars, dbVars,
                   levelVars, chatVars, sessionVars,
                   researchVars>>

\* scorer.get_recommendations(scores) on what calculate_final_score returned
GetRecommendations ==
    /\ Returned(result)
    /\ recommendations = NotRun
    /\ recommendations' = get_recommendations(result)
    /\ UNCHANGED <<metrics, result, catResult, tieUp, extractVars, dbVars, levelVars, chatVars, sessionVars,
                   researchVars>>

NextScore ==
    \/ \E category \in TargetCategories : CalculateCategoryScore(category)
    \/ CalculateFinalScore
    \/ GetRecommendations

SpecScore == InitScore /\ [][NextScore]_vars

-----------------------------------------------------------------------------
(* calculate_category_score on values with three decimals, in thousandths  *)

\* thirds, a value half way between two hundredths, the ends of the range
\* and their neighbours, and a record without weight
RangePool ==
    { Metric("Environmental", "A", 33333, 50),
      Metric("Environmental", "B", 33335, 100),
      Metric("Environmental", "Carbon", 66667, 1),
      Metric("Environmental", "Carbon", 0, 100),
      Metric("Environmental", "A", 100000, 100),
      Metric("Environmental", "B", 99999, 100),
      Metric("Environmental", "Carbon", 1, 100),
      Metric("Environmental", "Carbon", 80000, 0),
      Metric("Social", "Labor Practices", 12345, 100) }

InitRange ==
    /\ metrics \in SeqsUpTo(RangePool, MaxMetrics)
    /\ result = NotRun
    /\ catResult = NotRun
    /\ recommendations = NotRun
    /\ tieUp \in BOOLEAN
    /\ ExtractIdle
    /\ DbEmpty
    /\ LevelIdle
    /\ ChatIdle
    /\ SessionIdle
    /\ ResearchIdle

\* scorer.calculate_category_score(metrics, category)
CalculateCategoryScore3dp(category) ==
    /\ catResult = NotRun
    /\ catResult' = [category |-> category,
                     ret |-> calculate_category_score_3dp(metrics, category)]
    /\ UNCHANGED <<metrics, result, recommendations, tieUp, extractVars, dbVars,
                   levelVars, chatVars, sessionVars, researchVars>>

NextRange == \E category \in Categories : CalculateCategoryScore3dp(category)

SpecRange == InitRange /\ [][NextRange]_vars

-----------------------------------------------------------------------------
(* Inputs of get_recommendations: scores structures on both sides of each   *)
(* threshold, with up to three low metrics in every category.  Only the     *)
(* parts get_recommendations reads are filled in.                           *)

Detail(n, v) == [name |-> n, value |-> v, confidence |-> 100]

\* the detail lists of a category: none, one at the threshold 50, one below
\* it, two below it around one that is not, three below it
DetailLists ==
    { <<>>,
      << Detail("Carbon", 5000) >>,
      << Detail("A", 4000) >>,
      << Detail("A", 4000), Detail("Carbon", 5000), Detail("B", 0) >>,
      << Detail("B", 0), Detail("A", 4000), Detail("Labor Practices", 4999) >> }

\* category scores just below and at the threshold 60
CategoryScorePool ==
    { [score |-> sc, confidence |-> 100, metric_count |-> Len(ds), metrics |-> ds] :
        sc \in {5999, 6000}, ds \in DetailLists }

\* final scores just below and at the thresholds 50 and 70
ScoresPool ==
    { [exc |-> "None", final_score |-> f, category_breakdown |-> b] :
        f \in {4999, 5000, 6999, 7000}, b \in [Categories -> CategoryScorePool] }

InitRecommend ==
    /\ result \in ScoresPool
    /\ metrics = <<>>
    /\ catResult = NotRun
    /\ recommendations = NotRun
    /\ tieUp \in BOOLEAN
    /\ ExtractIdle
    /\ DbEmpty
    /\ LevelIdle
    /\ ChatIdle
    /\ SessionIdle
    /\ ResearchIdle

NextRecommend == GetRecommendations

SpecRecommend == InitRecommend /\ [][NextRecommend]_vars

-----------------------------------------------------------------------------
(* Inputs of the level functions: every score of [0,100] with two decimals *)

ScoreMaxH == 100 * 100

InitLevel ==
    /\ score \in 0..ScoreMaxH
    /\ levels = NotRun
    /\ ScoreIdle
    /\ ExtractIdle
    /\ DbEmpty
    /\ ChatIdle
    /\ SessionIdle
    /\ ResearchIdle

\* the three level functions applied to the same score
GetScoreLevels ==
    /\ levels = NotRun
    /\ levels' = [exc |-> "None",
                  scorer |-> Scorer_get_score_level(score * 100),
                  sidebar |-> get_score_level(score * 100),
                  pdf |-> PDF_get_score_level(score * 100)]
    /\ UNCHANGED <<scorerVars, tieUp, extractVars, dbVars, score, chatVars, sessionVars,
                   researchVars>>

NextLevel == GetScoreLevels

SpecLevel == InitLevel /\ [][NextLevel]_vars

-----------------------------------------------------------------------------
(* Inputs of the extractor *)

Env(v, c) == [category |-> JStr("Environmental"), metric_name |-> JStr("Carbon"),
              value |-> v, confidence |-> c]

\* The entries the candidate lists are made of: in range, out of range on
\* either side, uncoercible, numeric strings, a missing field, unknown
\* categories, an extra field with roundings to do, NaN, and the entries
\* on which the loop raises.
RawPool ==
    { JDict(Env(JNum(85000), JNum(900))),
      JDict(Env(JNum(150000), JNum(-300))),
      JDict(Env(JNum(-5000), JNum(1500))),
      JDict([category |-> JStr("Social"), metric_name |-> JStr("Labor Practices"),
             value |-> JStr("N/A"), confidence |-> JStr("high")]),
      JDict([category |-> JStr("Governance"), metric_name |-> JStr("Board Independence"),
             value |-> JStr("85"), confidence |-> JNull]),
      JDict([category |-> JStr("Social"), metric_name |-> JStr("Labor Practices"),
             value |-> JNum(33333), confidence |-> JNum(125), source |-> JStr("url")]),
      JDict([category |-> JStr("Governance"), metric_name |-> JStr("Board Independence"),
             value |-> JNaN, confidence |-> JNaN]),
      JDict([category |-> JStr("Environmental"), metric_name |-> JStr("Carbon"),
             value |-> JNum(70000)]),
      JDict([category |-> JStr("Other"), metric_name |-> JStr("Carbon"),
             value |-> JNum(70000), confidence |-> JNum(500)]),
      JDict([category |-> JNull, metric_name |-> JStr("Carbon"),
             value |-> JNum(70000), confidence |-> JNum(500)]),
      JDict(Env(JBigInt, JNum(500))),
      JDict([category |-> JList, metric_name |-> JStr("Carbon"),
             value |-> JNum(70000), confidence |-> JNum(500)]),
      JNonDict("int"),
      JNonDict("list") }

\* longest candidate list in an LLM response
MaxRaw == 3

Responses ==
    { [kind |-> "call_raises"], [kind |-> "not_json"], [kind |-> "json_not_object"],
      [kind |-> "json_without_metrics"] }
    \cup { [kind |-> "json", metrics |-> ms] : ms \in SeqsUpTo(RawPool, MaxRaw) }

InitExtract ==
    /\ response \in Responses
    /\ validated = NotRun
    /\ extracted = NotRun
    /\ tieUp \in BOOLEAN
    /\ metrics = <<>>
    /\ result = NotRun
    /\ catResult = NotRun
    /\ recommendations = NotRun
    /\ DbEmpty
    /\ LevelIdle
    /\ ChatIdle
    /\ SessionIdle
    /\ ResearchIdle

\* extractor._validate_metrics(metrics) on the candidate list of the response
ValidateMetrics ==
    /\ response.kind = "json"
    /\ validated = NotRun
    /\ validated' = validate_metrics(response.metrics)
    /\ UNCHANGED <<scorerVars, tieUp, response, extracted, dbVars, levelVars, chatVars, sessionVars,
                   researchVars>>

\* extractor.extract_metrics(company_name, sources): the list that
\* analyze_company_helper hands to db.save_metrics
ExtractMetrics ==
    /\ extracted = NotRun
    /\ extracted' = [exc |-> "None", ret |-> extract_metrics(response)]
    /\ UNCHANGED <<scorerVars, tieUp, response, validated, dbVars, levelVars, chatVars, sessionVars,
                   researchVars>>

\* analyze_company_helper, lines 84 and 86: the list extract_metrics returned
\* goes to scorer.calculate_final_score
ScoreExtractedMetrics ==
    /\ Returned(extracted)
    /\ result = NotRun
    /\ metrics' = extracted.ret
    /\ result' = calculate_final_score(extracted.ret)
    /\ UNCHANGED <<catResult, recommendations, tieUp, extractVars, dbVars,
                   levelVars, chatVars, sessionVars,
                   researchVars>>

NextExtract == ValidateMetrics \/ ExtractMetrics \/ ScoreExtractedMetrics

SpecExtract == InitExtract /\ [][NextExtract]_vars

-----------------------------------------------------------------------------
(* The database under the calls of DatabaseManager's interface *)

CompanyNames == {"Tesla", "Apple"}

Source(u) == [url |-> u, content |-> "text"]

\* the source lists handed to save_research: none and two
SourceLists == { <<>>, << Source("u1"), Source("u2") >> }

\* the metric lists handed to save_metrics: none and two
DbMetricLists ==
    { <<>>,
      << Metric("Social", "Labor Practices", 7000, 100),
         Metric("Environmental", "Carbon", 8000, 100) >> }

\* the scores dicts handed to save_scores
ScoreDicts ==
    { [final_score |-> 7150, environmental_score |-> 8000, social_score |-> 7000,
       governance_score |-> 6000],
      [final_score |-> 5000, environmental_score |-> 5000, social_score |-> 5000,
       governance_score |-> 5000] }

\* the cache windows get_recent_analysis is called with (7 is the default)
CacheDays == {1, 7}

\* last day of the clock
MaxDay == 8

\* the days on which the program is used: the first day, the day after it,
\* and the last day, a week after the second
ClockDays == {0, 1, MaxDay}

\* most rows table sustainability_scores grows to
MaxScoreRows == 2

CompanyIds == {c.id : c \in companies}

\* time passes until the program is used again: what get_companies_from_db
\* cached (ttl=10, in seconds) has expired by then.  The value a call of
\* get_recent_analysis returned is a local of its caller (analyze.py line 64),
\* gone before anything else happens: every other step leaves cached = NotRun.
Tick ==
    /\ now < MaxDay
    /\ now' \in {d \in ClockDays : d > now}
    /\ cached' = NotRun
    /\ companies_cache' = NotRun
    /\ UNCHANGED <<scorerVars, tieUp, extractVars, tables, levelVars, chatVars, chat_messages,
                   researchVars>>

\* DatabaseManager.save_research(company_name, sources)
SaveResearch(company_name, sources) ==
    LET run == save_research(company_name, sources)
    IN  /\ companies' = WithConnection(companies, run.companies, run.exc)
        /\ next_company_id' =
              WithConnection(next_company_id, run.next_company_id, run.exc)
        /\ research_sources' =
              WithConnection(research_sources, run.research_sources, run.exc)
        /\ cached' = NotRun
        /\ UNCHANGED <<scorerVars, tieUp, extractVars, now, sustainability_metrics,
                       sustainability_scores, levelVars, chatVars, sessionVars,
                   researchVars>>

\* DatabaseManager.save_metrics(company_id, metrics)
SaveMetrics(company_id, ms) ==
    LET run == save_metrics(company_id, ms)
    IN  /\ sustainability_metrics' =
              WithConnection(sustainability_metrics, run.sustainability_metrics, run.exc)
        /\ cached' = NotRun
        /\ UNCHANGED <<scorerVars, tieUp, extractVars, now, companies, research_sources,
                       sustainability_scores, next_company_id, levelVars, chatVars, sessionVars,
                   researchVars>>

\* DatabaseManager.save_scores(company_id, scores)
SaveScores(company_id, scores) ==
    LET run == save_scores(company_id, scores)
    IN  /\ Len(sustainability_scores) < MaxScoreRows
        /\ sustainability_scores' =
              WithConnection(sustainability_scores, run.sustainability_scores, run.exc)
        /\ cached' = NotRun
        /\ UNCHANGED <<scorerVars, tieUp, extractVars, now, companies, research_sources,
                       sustainability_metrics, next_company_id, levelVars, chatVars, sessionVars,
                   researchVars>>

\* DatabaseManager.get_recent_analysis(company_name, days)
GetRecentAnalysis(company_name, days) ==
    /\ cached' = [company_name |-> company_name, days |-> days,
                  ret |-> get_recent_analysis(company_name, days),
                  before |-> Snapshot]
    /\ \E after \in {get_recent_analysis_tables(company_name, days)} :
          /\ companies' = after.companies
          /\ research_sources' = after.research_sources
          /\ sustainability_metrics' = after.sustainability_metrics
          /\ sustainability_scores' = after.sustainability_scores
          /\ next_company_id' = after.next_company_id
    /\ UNCHANGED <<scorerVars, tieUp, extractVars, now, levelVars, chatVars, sessionVars,
                   researchVars>>

Init ==
    /\ DbEmpty
    /\ ScoreIdle
    /\ ExtractIdle
    /\ LevelIdle
    /\ ChatIdle
    /\ SessionIdle
    /\ ResearchIdle

\* history is kept where the save_* calls are looked at on their own (below)
Next ==
    \/ Tick /\ UNCHANGED history
    \/ \E n \in CompanyNames, srcs \in SourceLists :
          SaveResearch(n, srcs) /\ UNCHANGED history
    \/ \E id \in CompanyIds, ms \in DbMetricLists :
          SaveMetrics(id, ms) /\ UNCHANGED history
    \/ \E id \in CompanyIds, sc \in ScoreDicts :
          SaveScores(id, sc) /\ UNCHANGED history
    \/ \E n \in CompanyNames, d \in CacheDays :
          GetRecentAnalysis(n, d) /\ UNCHANGED history

Spec == Init /\ [][Next]_vars

-----------------------------------------------------------------------------
(* The save_* calls on their own, on one day, with lists and dicts that     *)
(* lack a key the call reads among those handed in                          *)

\* a source list whose second entry has no 'content'
BrokenSourceLists == { << Source("u3"), [url |-> "u4"] >> }

\* a metric list whose second entry has no 'confidence'
BrokenMetricLists ==
    { << Metric("Environmental", "Carbon", 2000, 100),
         [category |-> "Social", metric_name |-> "Labor Practices", value |-> 3000] >> }

\* one more metric list, and a scores dict without 'final_score'
MoreMetricLists == { << Metric("Governance", "Board Independence", 6000, 50) >> }

BrokenScoreDicts ==
    { [environmental_score |-> 5000, social_score |-> 5000, governance_score |-> 5000] }

SavedSourceLists == SourceLists \cup BrokenSourceLists
SavedMetricLists == DbMetricLists \cup MoreMetricLists \cup BrokenMetricLists
SavedScoreDicts == ScoreDicts \cup BrokenScoreDicts

\* a save_* call as history keeps it: what was called with what, the
\* exception that left it ("None" when it returned), the id it worked on,
\* and the tables before the call
Call(op, company_id, given, exc) ==
    [op |-> op, company_id |-> company_id, given |-> given, exc |-> exc,
     before |-> Snapshot]

NextSave ==
    \/ \E n \in CompanyNames, srcs \in SavedSourceLists :
          /\ SaveResearch(n, srcs)
          /\ history' = Call("save_research", save_research(n, srcs).ret, srcs,
                             save_research(n, srcs).exc)
    \/ \E id \in CompanyIds, ms \in SavedMetricLists :
          /\ SaveMetrics(id, ms)
          /\ history' = Call("save_metrics", id, ms, save_metrics(id, ms).exc)
    \/ \E id \in CompanyIds, sc \in SavedScoreDicts :
          /\ SaveScores(id, sc)
          /\ history' = Call("save_scores", id, sc, save_scores(id, sc).exc)

SpecSave == Init /\ [][NextSave]_vars

-----------------------------------------------------------------------------
(* ui/intent_handlers/analyze.py: analyze_company_helper on the database,   *)
(* with the research result and the LLM response of the run as inputs       *)

\* what ResearchAgent.research_company finds: nothing, or two sources
FoundSources == SourceLists

\* what the LLM answers: an object without 'metrics', or two records, one of
\* them with words for numbers
AnalysisResponses ==
    { [kind |-> "json_without_metrics"],
      [kind |-> "json",
       metrics |-> << JDict(Env(JNum(85000), JNum(900))),
                      JDict([category |-> JStr("Social"),
                             metric_name |-> JStr("Labor Practices"),
                             value |-> JStr("N/A"), confidence |-> JStr("high")]) >>] }

\* the calls a run of analyze_company_helper makes on its collaborators, the
\* tables it leaves, what it returns (or the exception that leaves it), and
\* whether it reached get_companies_from_db.clear() (line 90), which only the
\* run that saved a fresh analysis does
Ran(calls, ret, t) ==
    [ran |-> calls, ret |-> ret,
     cleared |-> ret.exc = "None" /\ ret.success /\ ~ret.cached,
     companies |-> t.companies, research_sources |-> t.research_sources,
     sustainability_metrics |-> t.sustainability_metrics,
     sustainability_scores |-> t.sustainability_scores,
     next_company_id |-> t.next_company_id]

\* analyze_company_helper from 'Perform analysis' on (lines 78 to 101), ms
\* being what extract_metrics returns in this run and scores what
\* calculate_final_score makes of it.  Each save_* call is a transaction of
\* its own on tables no other of them writes, so each is computed on the
\* tables as the run found them.  failure names the save_* call in which
\* sqlite3 raises OperationalError in this run (the database locked by another
\* session, the disk full), "None" when it raises in none.
\* a slip: the research is saved before it is looked at
perform_analysis_saving_before_the_check(company_name, sources, ms, scores, failure) ==
    LET research == save_research(company_name, sources)
    IN  Ran(<<"research_company", "save_research">>,
            [exc |-> "None", success |-> FALSE],
            [Snapshot EXCEPT !.companies = research.companies,
                             !.research_sources = research.research_sources,
                             !.next_company_id = research.next_company_id])

perform_analysis(company_name, sources, ms, scores, failure) ==
    IF sources = <<>>
    THEN Ran(<<"research_company">>, [exc |-> "None", success |-> FALSE], Snapshot)
    ELSE
    LET research == save_research(company_name, sources)
        company_id == research.ret
        after1 == [Snapshot EXCEPT
                     !.companies = WithConnection(companies, research.companies, research.exc),
                     !.research_sources =
                         WithConnection(research_sources, research.research_sources,
                                        research.exc),
                     !.next_company_id =
                         WithConnection(next_company_id, research.next_company_id,
                                        research.exc)]
        saved == [save_metrics(company_id, ms) EXCEPT
                    !.exc = IF failure = "save_metrics" THEN "OperationalError" ELSE @]
        after2 == [after1 EXCEPT
                     !.sustainability_metrics =
                         WithConnection(sustainability_metrics,
                                        saved.sustainability_metrics, saved.exc)]
        scored == [save_scores(company_id, scores) EXCEPT
                     !.exc = IF failure = "save_scores" THEN "OperationalError" ELSE @]
        after3 == [after2 EXCEPT
                     !.sustainability_scores =
                         WithConnection(sustainability_scores,
                                        scored.sustainability_scores, scored.exc)]
    IN  IF research.exc # "None"
        THEN Ran(<<"research_company", "save_research">>, Raise(research.exc), after1)
        ELSE IF saved.exc # "None"
        THEN Ran(<<"research_company", "save_research", "extract_metrics",
                   "save_metrics">>, Raise(saved.exc), after2)
        ELSE IF scores.exc # "None"
        THEN Ran(<<"research_company", "save_research", "extract_metrics",
                   "save_metrics", "calculate_final_score">>, Raise(scores.exc), after2)
        ELSE IF scored.exc # "None"
        THEN Ran(<<"research_company", "save_research", "extract_metrics",
                   "save_metrics", "calculate_final_score", "save_scores">>,
                 Raise(scored.exc), after3)
        ELSE Ran(<<"research_company", "save_research", "extract_metrics",
                   "save_metrics", "calculate_final_score", "save_scores">>,
                 [exc |-> "None", success |-> TRUE, score |-> scores.final_score,
                  level |-> scores.score_level, cached |-> FALSE],
                 after3)

\* a slip: what the cache has is not looked at
analyze_company_helper_without_cache_gate(hit, company_name, sources, ms, scores, failure) ==
    perform_analysis(company_name, sources, ms, scores, failure)

\* analyze_company_helper(company_name), hit being what get_recent_analysis
\* returned for the company.  The row get_latest_score returns has no
\* 'score_level': the level of a cached result is the sidebar's
\* get_score_level of the stored score.
analyze_company_helper(hit, company_name, sources, ms, scores, failure) ==
    IF hit # None
    THEN Ran(<<>>,
             [exc |-> "None", success |-> TRUE, score |-> hit.scores.final_score,
              level |-> get_score_level(hit.scores.final_score * 100),
              cached |-> TRUE],
             Snapshot)
    ELSE perform_analysis(company_name, sources, ms, scores, failure)

\* the save_* call sqlite3 fails in during a run, if in any
Failures == {"None", "save_metrics", "save_scores"}

\* one call of analyze_company_helper, CACHE_EXPIRY_DAYS being cache_days,
\* sources what the research agent finds and resp what the LLM answers.
\* history keeps the call, what get_recent_analysis had for it, what it ran
\* and returned, what the research agent found for it (NotRun when it was
\* not asked), and the tables before it.  The list of messages is the
\* caller's.
AnalyzeCompanyHelper(company_name, cache_days, sources, resp, failure) ==
    \E hit \in {get_recent_analysis(company_name, cache_days)},
       ms \in {extract_metrics(resp)} :
    \E scores \in {calculate_final_score(ms)} :
    \E run \in {analyze_company_helper(hit, company_name, sources, ms, scores,
                                       failure)} :
        /\ \/ "save_scores" \notin Range(run.ran)
           \/ Len(sustainability_scores) < MaxScoreRows
        /\ companies' = run.companies
        /\ research_sources' = run.research_sources
        /\ sustainability_metrics' = run.sustainability_metrics
        /\ sustainability_scores' = run.sustainability_scores
        /\ next_company_id' = run.next_company_id
        /\ history' = [op |-> "analyze_company_helper", company_name |-> company_name,
                       found |-> IF hit # None THEN NotRun ELSE sources,
                       failure |-> failure,
                       bundle |-> hit, ran |-> run.ran, ret |-> run.ret,
                       before |-> Snapshot]
        /\ cached' = NotRun
        /\ companies_cache' = IF run.cleared THEN NotRun ELSE companies_cache
        /\ UNCHANGED <<scorerVars, tieUp, extractVars, now, levelVars, researchVars>>

NextAnalyze ==
    \/ Tick /\ UNCHANGED history
    \/ \E n \in CompanyNames, d \in CacheDays, srcs \in FoundSources,
          resp \in AnalysisResponses :
          AnalyzeCompanyHelper(n, d, srcs, resp, "None")
          /\ UNCHANGED <<chatVars, chat_messages>>

SpecAnalyze == Init /\ [][NextAnalyze]_vars

\* CACHE_EXPIRY_DAYS as analyze.py and sidebar.py read it: 7 unless the
\* environment sets it
CACHE_EXPIRY_DAYS == 7

\* the runs of analyze_company_helper on one company with the days between
\* them, sqlite3 failing in some of them
NextAbort ==
    \/ Tick /\ UNCHANGED history
    \/ \E n \in {"Tesla"}, srcs \in FoundSources, resp \in AnalysisResponses,
          failure \in Failures :
          AnalyzeCompanyHelper(n, CACHE_EXPIRY_DAYS, srcs, resp, failure)
          /\ UNCHANGED <<chatVars, chat_messages>>

SpecAbort == Init /\ [][NextAbort]_vars

-----------------------------------------------------------------------------
(* app.py: the script's run on a submitted prompt.  Streamlit runs main()   *)
(* from the top on every interaction; st.chat_input returns the prompt in   *)
(* the run its submission starts and None in every other run.  st.rerun()   *)
(* stops the run it is called in, no statement after it is executed, and    *)
(* starts the script again, where st.chat_input returns None.               *)

\* the intents main() routes to a handler of their own that reads only
OwnHandlerIntents ==
    {"compare", "rag_question", "show_score", "show_details", "show_environmental",
     "show_social", "show_governance", "show_strengths_weaknesses", "download"}

\* the intents the classifier answers with here: those above and 'analyze',
\* which main() has no branch for (the management intents clear, delete and
\* list_companies are left out of this specification)
Intents == OwnHandlerIntents \cup {"analyze"}

\* the needs_analysis lists the classifier answers with
NeedsAnalysisLists == { <<>>, <<"Tesla">>, <<"Apple", "Tesla">> }

\* main(), lines 115 to 142: the handler an intent is routed to
HandlerOf(intent) ==
    CASE intent = "compare" -> "handle_compare"
      [] intent = "show_score" -> "handle_show_score"
      [] intent = "show_details" -> "handle_show_details"
      [] intent \in {"show_environmental", "show_social", "show_governance"} ->
            "handle_show_category"
      [] intent = "show_strengths_weaknesses" -> "handle_show_strengths_weaknesses"
      [] intent = "rag_question" -> "handle_rag_question"
      [] intent = "download" -> "handle_download"
      [] OTHER -> "None"

\* where the run is after handle_analyze went through a non-empty list:
\* st.rerun() (analyze.py line 136) has stopped it, and the run it starts
\* waits at st.chat_input
after_handle_analyze == "chat_input"

\* main(), lines 95 to 107: a prompt is submitted and classified
SubmitPrompt(intent, needs_analysis) ==
    /\ chat.pc = "chat_input"
    /\ chat' = [pc |-> "STEP 1", intent |-> intent, needs_analysis |-> needs_analysis,
                ran |-> <<>>]
    /\ UNCHANGED <<scorerVars, tieUp, extractVars, dbVars, levelVars, sessionVars,
                   researchVars>>

\* main(), line 110, and handle_analyze, line 118: nothing to analyse
NothingToAnalyze ==
    /\ chat.pc = "STEP 1"
    /\ chat.needs_analysis = <<>>
    /\ chat' = [chat EXCEPT !.pc = "STEP 2"]
    /\ UNCHANGED <<scorerVars, tieUp, extractVars, dbVars, levelVars, sessionVars,
                   researchVars>>

\* the companies of needs_analysis the loop of handle_analyze has passed
Analysed == SelectSeq(chat.ran, LAMBDA e : e.call = "analyze_company_helper")

\* handle_analyze, lines 124 to 134: one pass of the loop
AnalyzeNext(cache_days, sources, resp) ==
    /\ chat.pc = "STEP 1"
    /\ Len(Analysed) < Len(chat.needs_analysis)
    /\ AnalyzeCompanyHelper(chat.needs_analysis[Len(Analysed) + 1], cache_days,
                            sources, resp, "None")
    /\ chat' = [chat EXCEPT !.ran =
                  Append(@, [call |-> "analyze_company_helper",
                             company |-> chat.needs_analysis[Len(Analysed) + 1]])]
    /\ UNCHANGED chat_messages

\* handle_analyze, line 136: the loop is through and st.rerun() is called
EndHandleAnalyze ==
    /\ chat.pc = "STEP 1"
    /\ chat.needs_analysis # <<>>
    /\ Len(Analysed) = Len(chat.needs_analysis)
    /\ chat' = [chat EXCEPT !.pc = after_handle_analyze]
    /\ UNCHANGED <<scorerVars, tieUp, extractVars, dbVars, levelVars, sessionVars,
                   researchVars>>

\* main(), lines 115 to 145: the intent's handler runs, if it has one, and
\* the run ends (every handler ends in st.rerun(); without one the script
\* reaches its end)
RouteIntent ==
    /\ chat.pc = "STEP 2"
    /\ chat' = [chat EXCEPT
                  !.pc = "chat_input",
                  !.ran = IF HandlerOf(chat.intent) = "None" THEN @
                          ELSE Append(@, [call |-> HandlerOf(chat.intent)])]
    /\ UNCHANGED <<scorerVars, tieUp, extractVars, dbVars, levelVars, sessionVars,
                   researchVars>>

NextChat ==
    \/ \E intent \in Intents, needs \in NeedsAnalysisLists : SubmitPrompt(intent, needs)
    \/ NothingToAnalyze
    \/ \E d \in CacheDays, srcs \in FoundSources, resp \in AnalysisResponses :
          AnalyzeNext(d, srcs, resp)
    \/ EndHandleAnalyze
    \/ RouteIntent

SpecChat == Init /\ [][NextChat]_vars

-----------------------------------------------------------------------------
(* The session: the list of chat messages, the cached list of companies,    *)
(* and the handlers that delete.  Every run of the script renders the       *)
(* sidebar first and then, when a prompt was submitted, adds it to the      *)
(* messages, classifies it (an LLM call, seconds long) and routes it.       *)

\* a slip: the connection opened without the PRAGMA
_get_connection_without_pragma == [foreign_keys |-> FALSE]

\* DatabaseManager._get_connection: 'PRAGMA foreign_keys = ON'
_get_connection == [foreign_keys |-> TRUE]

\* the foreign keys of research_sources, sustainability_metrics and
\* sustainability_scores on companies(id): ON DELETE CASCADE, enforced on a
\* connection that has foreign_keys on
OnDeleteCascade(conn, t, ids) ==
    IF ~conn.foreign_keys THEN t
    ELSE [t EXCEPT
            !.research_sources = SelectSeq(@, LAMBDA r : r.company_id \notin ids),
            !.sustainability_metrics = SelectSeq(@, LAMBDA r : r.company_id \notin ids),
            !.sustainability_scores = SelectSeq(@, LAMBDA r : r.company_id \notin ids)]

\* the id the next new row of companies gets: one more than the largest in
\* the table, SQLite's choice for an INTEGER PRIMARY KEY (the id of a deleted
\* company is handed out again)
NextRowid(rows) ==
    IF rows = {} THEN 1
    ELSE 1 + (CHOOSE i \in {c.id : c \in rows} : \A c \in rows : c.id <= i)

\* 'DELETE FROM companies WHERE name = ?' for each of names, each on a
\* connection of its own that commits
delete_companies(t, names) ==
    LET left == {c \in t.companies : c.name \notin names}
    IN  OnDeleteCascade(_get_connection,
                        [t EXCEPT !.companies = left,
                                  !.next_company_id = NextRowid(left)],
                        {c.id : c \in {d \in t.companies : d.name \in names}})

\* the body of get_companies_from_db: the companies get_recent_analysis has a
\* bundle for, by name (of the bundle the dict holds, the score is kept here)
companies_data_of_the_database ==
    LET listed == {c.name : c \in {d \in companies :
                      get_recent_analysis(d.name, CACHE_EXPIRY_DAYS) # None}}
    IN  [n \in listed |->
            [score |-> get_recent_analysis(n, CACHE_EXPIRY_DAYS).scores.final_score]]

\* @st.cache_data(ttl=10) on get_companies_from_db: what a call returns, the
\* body being run only when nothing is held
get_companies_from_db ==
    IF companies_cache = NotRun THEN companies_data_of_the_database
    ELSE companies_cache.ret

\* ... and what is held after a call
cache_data ==
    IF companies_cache = NotRun
    THEN [exc |-> "None", ret |-> companies_data_of_the_database]
    ELSE companies_cache

\* an entry of st.session_state.chat_messages; of the texts the model keeps
\* which of the program's messages it is
Message(role, content) == [role |-> role, content |-> content]

\* initialize_chat_state: the list as the first run of the script leaves it
initial_chat_messages == << Message("assistant", "welcome") >>

\* add_user_message
add_user_message(msgs) == Append(msgs, Message("user", "prompt"))

\* what a handler leaves: the tables, the cache, the messages, and the two
\* lists handle_delete reports
Outcome(t, cache, msgs, deleted, not_found) ==
    [tables |-> t, cache |-> cache, messages |-> msgs,
     deleted |-> deleted, not_found |-> not_found]

\* a slip: the cache is left as it is after deletions
handle_delete_keeping_the_cache(names, msgs) ==
    Outcome(delete_companies(Snapshot, Range(names) \cap DOMAIN get_companies_from_db),
            cache_data, Append(msgs, Message("assistant", "Deleted / Not found")),
            SelectSeq(names, LAMBDA c : c \in DOMAIN get_companies_from_db),
            SelectSeq(names, LAMBDA c : c \notin DOMAIN get_companies_from_db))

\* handle_delete(companies), msgs being the messages when it is called
handle_delete(names, msgs) ==
    IF names = <<>>
    THEN Outcome(Snapshot, companies_cache,
                 Append(msgs, Message("assistant", "Please specify")), <<>>, <<>>)
    ELSE LET companies_data == get_companies_from_db
             deleted == SelectSeq(names, LAMBDA c : c \in DOMAIN companies_data)
             not_found == SelectSeq(names, LAMBDA c : c \notin DOMAIN companies_data)
         IN  Outcome(delete_companies(Snapshot, Range(deleted)),
                     IF deleted # <<>> THEN NotRun ELSE cache_data,
                     Append(msgs, Message("assistant", "Deleted / Not found")),
                     deleted, not_found)

\* a slip: the chat is emptied
handle_clear_emptying_the_chat(msgs) ==
    Outcome(delete_companies(Snapshot, {c.name : c \in companies}), NotRun, <<>>,
            <<>>, <<>>)

\* handle_clear: 'DELETE FROM companies'
handle_clear(msgs) ==
    Outcome(delete_companies(Snapshot, {c.name : c \in companies}), NotRun,
            << msgs[1] >>, <<>>, <<>>)

\* handle_list_companies
handle_list_companies(msgs) ==
    Outcome(Snapshot, cache_data,
            Append(msgs, Message("assistant",
                                 IF DOMAIN get_companies_from_db # {}
                                 THEN "I've analyzed" ELSE "I haven't analyzed")),
            <<>>, <<>>)

\* render_sidebar, a delete button of a listed company pressed
sidebar_delete(name, msgs) ==
    Outcome(delete_companies(Snapshot, {name}), NotRun,
            Append(msgs, Message("assistant",
                                 IF name = "Tesla" THEN "Deleted from database: Tesla"
                                 ELSE "Deleted from database")),
            <<name>>, <<>>)

\* render_sidebar, 'Clear All Companies' pressed
sidebar_clear_all(msgs) ==
    Outcome(delete_companies(Snapshot, {c.name : c \in companies}), NotRun,
            << msgs[1] >>, <<>>, <<>>)

\* the messages handle_analyze adds for one company: the announcement and
\* what came of the analysis (nothing, when an exception left the run)
handle_analyze_messages(msgs, ret) ==
    LET announced == Append(msgs, Message("assistant", "Let me analyze"))
    IN  IF ret.exc # "None" THEN announced
        ELSE IF ret.success THEN Append(announced, Message("assistant", "analyzed"))
        ELSE Append(announced, Message("assistant", "Couldn't find information"))

\* most messages the list grows to
MaxMessages == 8

\* the name lists the classifier hands to handle_delete
DeleteLists == { <<>>, <<"Tesla">>, <<"Apple", "Tesla">> }

\* what a handler left becomes the state
Leave(out) ==
    /\ companies' = out.tables.companies
    /\ research_sources' = out.tables.research_sources
    /\ sustainability_metrics' = out.tables.sustainability_metrics
    /\ sustainability_scores' = out.tables.sustainability_scores
    /\ next_company_id' = out.tables.next_company_id
    /\ companies_cache' = out.cache
    /\ chat_messages' = out.messages
    /\ cached' = NotRun
    /\ UNCHANGED <<scorerVars, tieUp, extractVars, now, levelVars, chatVars, researchVars>>

\* a handler's run as history keeps it
Handled(op, given, out) ==
    [op |-> op, given |-> given, deleted |-> out.deleted, not_found |-> out.not_found,
     before |-> Snapshot]

\* the ttl of the cache passes
ExpireCache ==
    /\ companies_cache # NotRun
    /\ companies_cache' = NotRun
    /\ history' = [op |-> "expire"]
    /\ cached' = NotRun
    /\ UNCHANGED <<scorerVars, tieUp, extractVars, now, tables, levelVars, chatVars,
                   chat_messages, researchVars>>

\* a run of the script with no prompt and no button pressed: render_sidebar
\* calls get_companies_from_db
RenderSidebar ==
    /\ companies_cache = NotRun
    /\ companies_cache' = cache_data
    /\ history' = [op |-> "render_sidebar"]
    /\ cached' = NotRun
    /\ UNCHANGED <<scorerVars, tieUp, extractVars, now, tables, levelVars, chatVars,
                   chat_messages, researchVars>>

\* main(), a prompt classified as 'analyze' with one company to analyse
AnalyzeTurn(company_name, sources, resp, failure) ==
    /\ Len(chat_messages) + 3 <= MaxMessages
    /\ AnalyzeCompanyHelper(company_name, CACHE_EXPIRY_DAYS, sources, resp, failure)
    /\ chat_messages' = handle_analyze_messages(add_user_message(chat_messages),
                                                history'.ret)
    /\ UNCHANGED chatVars

\* main(), a prompt classified as 'delete' with nothing to analyse
DeleteTurn(names) ==
    /\ Len(chat_messages) + 2 <= MaxMessages
    /\ \E out \in {handle_delete(names, add_user_message(chat_messages))} :
          /\ Leave(out)
          /\ history' = Handled("handle_delete", names, out)

\* main(), a prompt classified as 'clear'
ClearTurn ==
    \E out \in {handle_clear(add_user_message(chat_messages))} :
        /\ Leave(out)
        /\ history' = Handled("handle_clear", <<>>, out)

\* main(), a prompt classified as 'list_companies'
ListTurn ==
    /\ Len(chat_messages) + 2 <= MaxMessages
    /\ \E out \in {handle_list_companies(add_user_message(chat_messages))} :
          /\ Leave(out)
          /\ history' = Handled("handle_list_companies", <<>>, out)

\* render_sidebar: the delete button of a company it lists is pressed
SidebarDelete(name) ==
    /\ name \in DOMAIN get_companies_from_db
    /\ Len(chat_messages) + 1 <= MaxMessages
    /\ \E out \in {sidebar_delete(name, chat_messages)} :
          /\ Leave(out)
          /\ history' = Handled("sidebar_delete", <<name>>, out)

\* render_sidebar: 'Clear All Companies', shown when a company is listed, is
\* pressed
SidebarClearAll ==
    /\ DOMAIN get_companies_from_db # {}
    /\ \E out \in {sidebar_clear_all(chat_messages)} :
          /\ Leave(out)
          /\ history' = Handled("sidebar_clear_all", <<>>, out)

NextSession ==
    \/ Tick /\ history' = [op |-> "tick"]
    \/ ExpireCache
    \/ RenderSidebar
    \/ \E n \in CompanyNames, srcs \in FoundSources, resp \in AnalysisResponses,
          failure \in Failures :
          AnalyzeTurn(n, srcs, resp, failure)
    \/ \E names \in DeleteLists : DeleteTurn(names)
    \/ ClearTurn
    \/ ListTurn
    \/ \E n \in CompanyNames : SidebarDelete(n)
    \/ SidebarClearAll

SpecSession == Init /\ [][NextSession]_vars

-----------------------------------------------------------------------------
(* research/agent.py: research_company on the answers of the search service *)
(* and of the scrape service                                                *)

\* ResearchAgent.search_company, from the request on: the urls it returns.
\* requests.post or raise_for_status raising RequestException is caught and
\* answered with the empty list.
search_company(answer) ==
    IF answer.kind = "RequestException" THEN <<>>
    ELSE IF "citations" \notin DOMAIN answer.data THEN <<>>
    ELSE SubSeq(answer.data.citations, 1, Min(10, Len(answer.data.citations)))

\* ResearchAgent.scrape_url, from the request on: a source, or None.  (The
\* cut of the content at 50,000 characters is left out.)
scrape_url(url, answer) ==
    IF answer.kind = "RequestException" THEN None
    ELSE IF answer.content = "" THEN None
    ELSE [url |-> url, content |-> answer.content]

\* ResearchAgent.scrape_sources: the loop over urls[:max_sources * 2]
RECURSIVE ScrapeFrom(_, _, _, _, _)
ScrapeFrom(urls, answers, max_sources, i, sources) ==
    IF i > Min(Len(urls), max_sources * 2) \/ Len(sources) >= max_sources
    THEN sources
    ELSE ScrapeFrom(urls, answers, max_sources, i + 1,
                    IF scrape_url(urls[i], answers[urls[i]]) = None THEN sources
                    ELSE Append(sources, scrape_url(urls[i], answers[urls[i]])))

scrape_sources(urls, answers, max_sources) == ScrapeFrom(urls, answers, max_sources, 1, <<>>)

\* ResearchAgent.research_company
research_company(company_name, search, answers) ==
    LET urls == search_company(search)
    IN  IF urls = <<>>
        THEN [exc |-> "None", company |-> company_name, sources |-> <<>>]
        ELSE [exc |-> "None", company |-> company_name,
              sources |-> scrape_sources(urls, answers, 5)]

\* the urls the search service cites
Urls == <<"u1", "u2", "u3", "u4", "u5", "u6", "u7", "u8", "u9", "u10", "u11">>

\* answers of the search service: the request fails, a body without
\* 'citations', and bodies citing the first n urls
SearchAnswers ==
    { [kind |-> "RequestException"], [kind |-> "ok", data |-> [choices |-> <<>>]] }
    \cup { [kind |-> "ok", data |-> [citations |-> SubSeq(Urls, 1, n)]] : n \in 0..Len(Urls) }

Page(text) == [kind |-> "ok", content |-> text]

\* answers of the scrape service, url by url: every page has text, every
\* request fails, no page has content, every second request fails, and the
\* first six pages have no content
ScrapeAnswers ==
    { [u \in Range(Urls) |-> Page("text")],
      [u \in Range(Urls) |-> [kind |-> "RequestException"]],
      [u \in Range(Urls) |-> Page("")],
      [u \in Range(Urls) |-> IF u \in {"u2", "u4", "u6", "u8", "u10"}
                             THEN [kind |-> "RequestException"] ELSE Page("text")],
      [u \in Range(Urls) |-> IF u \in {"u1", "u2", "u3", "u4", "u5", "u6"}
                             THEN Page("") ELSE Page("text")] }

InitResearch ==
    /\ research_result \in [search : SearchAnswers, scrape : ScrapeAnswers, ret : {NotRun}]
    /\ DbEmpty
    /\ ScoreIdle
    /\ ExtractIdle
    /\ LevelIdle
    /\ ChatIdle
    /\ SessionIdle

\* research_agent.research_company(company_name), analyze.py line 79
ResearchCompany(company_name) ==
    /\ research_result.ret = NotRun
    /\ research_result' =
          [research_result EXCEPT
             !.ret = research_company(company_name, research_result.search,
                                      research_result.scrape)]
    /\ UNCHANGED <<scorerVars, tieUp, extractVars, dbVars, levelVars, chatVars,
                   sessionVars>>

NextResearch == \E n \in CompanyNames : ResearchCompany(n)

SpecResearch == InitResearch /\ [][NextResearch]_vars

-----------------------------------------------------------------------------
(* Properties of the scorer *)

Abs(x) == IF x < 0 THEN -x ELSE x

MetricFields == {"category", "metric_name", "value", "confidence"}

\* a record as the validator leaves it: category of the fixed set,
\* value in [0,100], confidence in [0,1]
ValidMetric(m) ==
    /\ DOMAIN m = MetricFields
    /\ m.category \in Categories
    /\ m.value \in 0..10000
    /\ m.confidence \in 0..100

ValidMetrics == \A i \in 1..Len(metrics) : ValidMetric(metrics[i])

FiveLevels == {"Excellent", "Good", "Fair", "Poor", "Very Poor"}

\* the label of a two-decimal score (in hundredths) under inclusive lower bounds
PartitionLevel(h) ==
    IF h >= 8500 THEN "Excellent"
    ELSE IF h >= 7000 THEN "Good"
    ELSE IF h >= 5000 THEN "Fair"
    ELSE IF h >= 3000 THEN "Poor"
    ELSE "Very Poor"

\* C1: for every valid metric list calculate_final_score returns a final_score
\* within [0,100] and a score_level that is one of the five labels.
C1_FinalScoreBoundedAndLabelled ==
    (result # NotRun /\ ValidMetrics) =>
        /\ Returned(result)
        /\ result.final_score \in 0..10000
        /\ result.score_level \in FiveLevels

\* C2: _get_score_level gives every two-decimal score of [0,100] the label of
\* the partition with inclusive lower bounds 85, 70, 50, 30, 0.
C2_ScoreLevelsPartition ==
    levels # NotRun => levels.scorer = PartitionLevel(score)

\* C4: the sidebar's and the PDF generator's level functions return the label
\* the scorer's _get_score_level returns, for every two-decimal score of [0,100].
C4_PresentationLevelsAgree ==
    levels # NotRun =>
        /\ levels.sidebar = levels.scorer
        /\ levels.pdf = levels.scorer

\* the metrics of the list that carry the category, summed by position
InCategory(i, c) == metrics[i].category = c
SumValueConf(c) ==
    SumSeq([i \in 1..Len(metrics) |->
              IF InCategory(i, c) THEN metrics[i].value * metrics[i].confidence ELSE 0])
SumConf(c) ==
    SumSeq([i \in 1..Len(metrics) |->
              IF InCategory(i, c) THEN metrics[i].confidence ELSE 0])
CountIn(c) == Cardinality({i \in 1..Len(metrics) : InCategory(i, c)})

\* C5: with one metric or more in the category and a positive confidence sum,
\* the score is sum(value*confidence)/sum(confidence) and the confidence is
\* sum(confidence)/count, each to the nearest hundredth, over the metrics of
\* that category alone; {80 @ 0.2, 40 @ 0.8} gives 48.0 and 0.5, {100 @ 1.0}
\* gives 100.0 and 1.0.
C5_CategoryScoreIsWeightedMean ==
    (catResult # NotRun /\ ValidMetrics) =>
        LET c == catResult.category
            r == catResult.ret
        IN  /\ (CountIn(c) > 0 /\ SumConf(c) > 0) =>
                  /\ Returned(r)
                  /\ 2 * Abs(r.score * SumConf(c) - SumValueConf(c)) <= SumConf(c)
                  /\ 2 * Abs(r.confidence * CountIn(c) - SumConf(c)) <= CountIn(c)
            /\ ( /\ metrics = << Metric("Environmental", "A", 8000, 20),
                                 Metric("Environmental", "B", 4000, 80) >>
                 /\ c = "Environmental" ) =>
                  (r.score = 4800 /\ r.confidence = 50)
            /\ ( /\ metrics = << Metric("Environmental", "Carbon", 10000, 100) >>
                 /\ c = "Environmental" ) =>
                  (r.score = 10000 /\ r.confidence = 100)

\* the weighted mean of a category was taken from a list that also holds
\* metrics of another category and metrics of unequal confidence
C5_Witness ==
    /\ catResult # NotRun
    /\ ValidMetrics
    /\ catResult.category = "Environmental"
    /\ Len(metrics) = 3
    /\ CountIn("Environmental") = 2
    /\ metrics[1] = Metric("Environmental", "A", 8000, 20)
    /\ metrics[3] = Metric("Environmental", "B", 4000, 80)
    /\ catResult.ret.score = 4800

\* C6: when no metric of the list carries the target category (the empty list
\* included) calculate_category_score returns exactly score 50.0,
\* confidence 0.0, metric_count 0, metrics [] and does not raise.
C6_EmptyCategoryIsNeutral ==
    (catResult # NotRun /\ CountIn(catResult.category) = 0) =>
        catResult.ret = [exc |-> "None", score |-> 5000, confidence |-> 0,
                         metric_count |-> 0, metrics |-> <<>>]

\* the scorer was asked for a category none of the metrics of a non-empty list carries
C6_Witness ==
    /\ catResult # NotRun
    /\ Len(metrics) >= 2
    /\ catResult.category \in Categories
    /\ CountIn(catResult.category) = 0

\* C7: when the category has metrics whose confidences sum to 0 the result is
\* score 50.0 and confidence 0.0, with metric_count and the detail list still
\* those of the metrics present.
C7_ZeroConfidenceFallsBack ==
    (catResult # NotRun /\ ValidMetrics) =>
        LET c == catResult.category
            r == catResult.ret
            present == SelectSeq(metrics, LAMBDA m : m.category = c)
        IN  (CountIn(c) > 0 /\ SumConf(c) = 0) =>
                /\ Returned(r)
                /\ r.score = 5000
                /\ r.confidence = 0
                /\ r.metric_count = CountIn(c)
                /\ r.metrics = [i \in 1..Len(present) |->
                                  [name |-> present[i].metric_name,
                                   value |-> present[i].value,
                                   confidence |-> present[i].confidence]]

\* two zero-confidence metrics of the target category, beside one of another
C7_Witness ==
    /\ catResult # NotRun
    /\ ValidMetrics
    /\ CountIn(catResult.category) = 2
    /\ SumConf(catResult.category) = 0
    /\ Len(metrics) = 3

\* C8: final_score is 0.40*Environmental + 0.35*Social + 0.25*Governance of the
\* category scores, to the nearest hundredth; the weights sum to 1.0; category
\* scores 80, 70, 60 give 71.5 and Good; the three category scores at the top
\* level are those of category_breakdown.
C8_FinalScoreIsFixedWeightSum ==
    /\ SumSeq([i \in 1..Len(CATEGORY_WEIGHTS) |-> CATEGORY_WEIGHTS[i].weight]) = 100
    /\ (result # NotRun /\ ValidMetrics) =>
        /\ Returned(result)
        /\ LET e == result.category_breakdown["Environmental"].score
               s == result.category_breakdown["Social"].score
               g == result.category_breakdown["Governance"].score
           IN  /\ 2 * Abs(100 * result.final_score - (40 * e + 35 * s + 25 * g)) <= 100
               /\ result.environmental_score = e
               /\ result.social_score = s
               /\ result.governance_score = g
               /\ (e = 8000 /\ s = 7000 /\ g = 6000) =>
                     (result.final_score = 7150 /\ result.score_level = "Good")

\* the documented example: category scores 80, 70 and 60
C8_Witness ==
    /\ Returned(result)
    /\ ValidMetrics
    /\ result.environmental_score = 8000
    /\ result.social_score = 7000
    /\ result.governance_score = 6000
    /\ result.final_score = 7150

\* C14: get_recommendations returns at most 5 lines, however many categories
\* score below 60 and however many metrics have a value below 50.
C14_AtMostFiveRecommendations ==
    recommendations # NotRun =>
        /\ Returned(recommendations)
        /\ Len(recommendations.ret) <= 5

\* all three categories score below 60 and each has three metrics below 50,
\* with a final score below 50: ten lines were due and five came back
C14_Witness ==
    /\ recommendations # NotRun
    /\ result.final_score < 5000
    /\ \A c \in Categories :
          /\ result.category_breakdown[c].score < 6000
          /\ Len(result.category_breakdown[c].metrics) = 3
          /\ \A i \in 1..3 : result.category_breakdown[c].metrics[i].value < 5000
    /\ Len(recommendations.ret) = 5

IsPrefix(a, b) == Len(a) <= Len(b) /\ a = SubSeq(b, 1, Len(a))

\* the lines the claim lists for one category
ClaimedCategoryLines(c) ==
    LET data == result.category_breakdown[c]
        low == {i \in 1..Len(data.metrics) : data.metrics[i].value < 5000}
        \* the low metrics that have fewer than two low metrics before them
        first2 == {i \in low : Cardinality({j \in low : j < i}) < 2}
        Focus(i) == [line |-> "Focus on", name |-> data.metrics[i].name, category |-> c]
        Nth(k) == CHOOSE i \in first2 : Cardinality({j \in first2 : j < i}) = k - 1
    IN  (IF data.score < 6000 THEN << [line |-> "Priority", category |-> c] >> ELSE <<>>)
        \o [k \in 1..Cardinality(first2) |-> Focus(Nth(k))]

\* the whole list the claim describes
ClaimedLines ==
    (IF result.final_score < 5000 THEN << [line |-> "Critical"] >>
     ELSE IF result.final_score < 7000 THEN << [line |-> "Important"] >>
     ELSE <<>>)
    \o ClaimedCategoryLines("Environmental")
    \o ClaimedCategoryLines("Social")
    \o ClaimedCategoryLines("Governance")

\* a returned line without the number it shows
Unnumbered(r) == [k \in DOMAIN r \ {"shown"} |-> r[k]]

\* C15: the list get_recommendations returns is a prefix of: the overall line
\* (present iff final_score < 70, "Critical" iff final_score < 50, otherwise
\* "Important"), then for Environmental, Social, Governance in turn the
\* Priority line iff the category score is below 60 and at most two Focus
\* lines for its metrics below 50, in their order.  With final_score < 70 the
\* first line returned is the overall line.
C15_RecommendationsArePrefixHeaderFirst ==
    recommendations # NotRun =>
        LET ret == recommendations.ret
            got == [i \in 1..Len(ret) |-> Unnumbered(ret[i])]
        IN  /\ IsPrefix(got, ClaimedLines)
            /\ Len(got) = Min(5, Len(ClaimedLines))
            /\ result.final_score < 7000 =>
                  /\ Len(got) >= 1
                  /\ got[1].line = IF result.final_score < 5000 THEN "Critical"
                                   ELSE "Important"
            /\ \A i \in 2..Len(got) : got[i].line \in {"Priority", "Focus on"}
            /\ result.final_score >= 7000 =>
                  \A i \in 1..Len(got) : got[i].line \in {"Priority", "Focus on"}

\* more than five lines were due with a final score between 50 and 70: the
\* Important line came first and the cut fell inside the Social category
C15_Witness ==
    /\ recommendations # NotRun
    /\ result.final_score \in 5000..6999
    /\ Len(ClaimedLines) > 5
    /\ recommendations.ret[1].line = "Important"
    /\ recommendations.ret[2].line = "Priority"
    /\ recommendations.ret[4].line = "Focus on"
    /\ recommendations.ret[4].name = "B"
    /\ recommendations.ret[5].category = "Social"

-----------------------------------------------------------------------------
(* Properties of the extractor *)

\* out (hundredths) is what the claim says a raw field becomes: a number in
\* range is kept to the nearest hundredth, a number beyond a bound becomes
\* the bound, a numeric string is read as its number, and what cannot be
\* coerced becomes the default
CleanedAs(out, v, hi, default) ==
    CASE v.t = "number" ->
            IF v.x >= hi THEN 10 * out = hi
            ELSE IF v.x <= 0 THEN out = 0
            ELSE 2 * Abs(10 * out - v.x) <= 10
      [] v.t = "string" ->
            IF v.s = "85" THEN out = 8500
            ELSE IF v.s = "150" THEN 10 * out = hi
            ELSE out = default
      [] v.t \in {"null", "list"} -> out = default
      [] OTHER -> TRUE

\* an entry _validate_metrics is to keep: a dict with the four fields whose
\* category is one of the three names
KeptEntry(e) ==
    /\ e.type = "dict"
    /\ MetricFields \subseteq DOMAIN e.items
    /\ e.items.category \in {JStr("Environmental"), JStr("Social"), JStr("Governance")}

\* C9: every record _validate_metrics outputs has value in [0,100] and
\* confidence in [0,1] (in range kept, out of range clamped to the nearest
\* bound, uncoercible value 50.0, uncoercible confidence 0.5), and so has
\* every record extract_metrics hands to the persistence layer, whose
\* category is one of the three.
C9_ValidatedWithinBounds ==
    /\ Returned(validated) =>
          /\ \A i \in 1..Len(validated.ret) :
                /\ validated.ret[i].value \in 0..10000
                /\ validated.ret[i].confidence \in 0..100
          /\ (\A j \in 1..Len(response.metrics) : KeptEntry(response.metrics[j])) =>
                /\ Len(validated.ret) = Len(response.metrics)
                /\ \A i \in 1..Len(validated.ret) :
                      /\ CleanedAs(validated.ret[i].value,
                                   response.metrics[i].items.value, 100000, 5000)
                      /\ CleanedAs(validated.ret[i].confidence,
                                   response.metrics[i].items.confidence, 1000, 50)
    /\ Returned(extracted) =>
          \A i \in 1..Len(extracted.ret) : ValidMetric(extracted.ret[i])

\* a list with value 150 and confidence -0.3, then "N/A" and "high", then an
\* in-range record, came out as 100 and 0, 50.0 and 0.5, 85.0 and 0.9
C9_Witness ==
    /\ Returned(validated)
    /\ response.metrics = << JDict(Env(JNum(150000), JNum(-300))),
                             JDict([category |-> JStr("Social"),
                                    metric_name |-> JStr("Labor Practices"),
                                    value |-> JStr("N/A"),
                                    confidence |-> JStr("high")]),
                             JDict(Env(JNum(85000), JNum(900))) >>
    /\ validated.ret[1].value = 10000 /\ validated.ret[1].confidence = 0
    /\ validated.ret[2].value = 5000 /\ validated.ret[2].confidence = 50
    /\ validated.ret[3].value = 8500 /\ validated.ret[3].confidence = 90

\* C10: what _validate_metrics returns is, in input order, one record for each
\* input record that has the four fields and a category of the three; the
\* others are dropped, none is added or repeated, and a record carries the
\* four fields only.
C10_ValidatedIsFilteredInput ==
    Returned(validated) =>
        LET kept == SelectSeq(response.metrics, KeptEntry)
        IN  /\ Len(validated.ret) = Len(kept)
            /\ \A i \in 1..Len(kept) :
                  /\ DOMAIN validated.ret[i] = MetricFields
                  /\ validated.ret[i].category = kept[i].items.category.s
                  /\ validated.ret[i].metric_name = kept[i].items.metric_name.s
                  /\ CleanedAs(validated.ret[i].value, kept[i].items.value, 100000, 5000)
                  /\ CleanedAs(validated.ret[i].confidence, kept[i].items.confidence,
                               1000, 50)

\* three entries went in: one with an extra field, one of an unknown category
\* or short of a field, one more of another category; two records came out
C10_Witness ==
    /\ Returned(validated)
    /\ Len(response.metrics) = 3
    /\ KeptEntry(response.metrics[1])
    /\ "source" \in DOMAIN response.metrics[1].items
    /\ ~KeptEntry(response.metrics[2])
    /\ response.metrics[2].type = "dict"
    /\ KeptEntry(response.metrics[3])
    /\ response.metrics[3].items.category # response.metrics[1].items.category
    /\ Len(validated.ret) = 2

\* an entry with nothing wrong: the four fields, a category of the three,
\* a number as value and as confidence
WellFormed(e) ==
    /\ KeptEntry(e)
    /\ e.items.value.t = "number"
    /\ e.items.confidence.t = "number"

\* C11: a malformed entry of the candidate list never makes _validate_metrics
\* raise and never costs the other entries: for a JSON response with a metrics
\* list extract_metrics returns a record for every well-formed entry and does
\* not put the default set in their place.
C11_MalformedRecordIsDroppedAlone ==
    /\ validated # NotRun => Returned(validated)
    /\ (extracted # NotRun /\ response.kind = "json") =>
          /\ extracted.ret # get_default_metrics
          /\ Len(extracted.ret) >= Len(SelectSeq(response.metrics, WellFormed))

\* the records of a list that carry the category
OfCategory(ms, c) == SelectSeq(ms, LAMBDA m : m.category = c)

\* C12: when the LLM call raises or its response is not parseable JSON,
\* extract_metrics does not raise and returns exactly the default set: 15
\* records, one for each metric name of METRICS_SCHEMA, 5 in each of the three
\* categories, each with value 50.0 and confidence 0.1.
C12_FailedExtractionGivesDefaults ==
    (extracted # NotRun /\ response.kind \in {"call_raises", "not_json"}) =>
        /\ Returned(extracted)
        /\ Len(extracted.ret) = 15
        /\ \A i \in 1..Len(extracted.ret) :
              /\ DOMAIN extracted.ret[i] = MetricFields
              /\ extracted.ret[i].value = 5000
              /\ extracted.ret[i].confidence = 10
        /\ \A c \in Categories : Len(OfCategory(extracted.ret, c)) = 5
        /\ \A k \in 1..Len(METRICS_SCHEMA) : \A j \in 1..Len(METRICS_SCHEMA[k].names) :
              Cardinality({i \in 1..Len(extracted.ret) :
                              /\ extracted.ret[i].category = METRICS_SCHEMA[k].category
                              /\ extracted.ret[i].metric_name = METRICS_SCHEMA[k].names[j]}) = 1

\* the response was text that json.loads rejects, and the default set came back
C12_Witness ==
    /\ extracted # NotRun
    /\ response.kind = "not_json"
    /\ Len(extracted.ret) = 15
    /\ extracted.ret[15] = Metric("Governance", "Stakeholder Engagement", 5000, 10)

FinalScoreFields ==
    {"final_score", "score_level", "confidence", "environmental_score", "social_score",
     "governance_score", "category_breakdown", "component_scores"}

CategoryScoreFields == {"score", "confidence", "metric_count", "metrics"}

-----------------------------------------------------------------------------
(* Properties of the cache gate *)

RowsOf(table, company_id) == {i \in 1..Len(table) : table[i].company_id = company_id}

\* the company row of that name is no older than the window and has a
\* source row and a score row
FreshAndComplete(company_name, days) ==
    \E c \in companies :
        /\ c.name = company_name
        /\ c.research_date >= now - days
        /\ RowsOf(research_sources, c.id) # {}
        /\ RowsOf(sustainability_scores, c.id) # {}

\* ret is the company row of that name with all its source rows, all its
\* metric rows and the newest of its score rows
BundleOf(ret, company_name) ==
    \E c \in companies :
        /\ c.name = company_name
        /\ ret.company = c
        /\ Len(ret.sources) = Cardinality(RowsOf(research_sources, c.id))
        /\ Range(ret.sources) = {research_sources[i] : i \in RowsOf(research_sources, c.id)}
        /\ Len(ret.metrics) = Cardinality(RowsOf(sustainability_metrics, c.id))
        /\ Range(ret.metrics) =
              {sustainability_metrics[i] : i \in RowsOf(sustainability_metrics, c.id)}
        /\ \E i \in RowsOf(sustainability_scores, c.id) :
              /\ ret.scores = sustainability_scores[i]
              /\ \A j \in RowsOf(sustainability_scores, c.id) : j <= i

\* C3: get_recent_analysis(name, days) returns the bundle (company, sources,
\* metrics, latest score) exactly when a company row of that name exists, its
\* research_date is not older than now - days, it has a source row and it has
\* a score row; otherwise it returns None.  The stored metrics play no part.
C3_CacheGateDecision ==
    /\ \A n \in CompanyNames, d \in CacheDays :
          LET ret == get_recent_analysis(n, d)
          IN  /\ (ret # None) <=> FreshAndComplete(n, d)
              /\ (ret # None) => BundleOf(ret, n)
    /\ cached # NotRun =>
          /\ (cached.ret # None) <=> FreshAndComplete(cached.company_name, cached.days)
          /\ (cached.ret # None) => BundleOf(cached.ret, cached.company_name)

\* a company researched a week ago, with sources and two score rows but no
\* metric row, was returned under the 7-day window with its newest score,
\* while the other company, researched 8 days ago with sources and a score,
\* is in the database
C3_Witness ==
    /\ cached # NotRun
    /\ cached.days = 7
    /\ cached.ret # None
    /\ cached.ret.metrics = <<>>
    /\ cached.ret.company.research_date = now - 7
    /\ cached.ret.company \in companies
    /\ \E c \in companies :
          /\ c.name # cached.company_name
          /\ c.research_date = now - 8
          /\ RowsOf(research_sources, c.id) # {}
          /\ RowsOf(sustainability_scores, c.id) # {}
          /\ get_recent_analysis(c.name, 7) = None
    /\ Len(sustainability_scores) = 2

-----------------------------------------------------------------------------
(* Properties of the save_* calls *)

Count(seq, x) == Cardinality({i \in 1..Len(seq) : seq[i] = x})

SameMultiset(a, b) ==
    /\ Len(a) = Len(b)
    /\ \A x \in Range(a) \cup Range(b) : Count(a, x) = Count(b, x)

\* a metric row as its category, metric_name, value and confidence
FourFields(rows) == [i \in 1..Len(rows) |-> [k \in MetricFields |-> rows[i][k]]]

\* the rows of a table that belong to a company, in the table's order
RowsFor(table, company_id) == SelectSeq(table, LAMBDA r : r.company_id = company_id)

\* C16: when save_metrics(company_id, M) has returned, get_metrics(company_id)
\* holds exactly the records of M, as a multiset of category, metric_name,
\* value and confidence, with nothing of an earlier save, and the metrics of
\* every other company are what they were.
C16_SaveMetricsReplaces ==
    (history # NotRun /\ history.op = "save_metrics" /\ history.exc = "None") =>
        /\ SameMultiset(FourFields(get_metrics(history.company_id)), history.given)
        /\ \A other \in CompanyIds \ {history.company_id} :
              /\ RowsFor(sustainability_metrics, other)
                    = RowsFor(history.before.sustainability_metrics, other)
              /\ get_metrics(other)
                    = SortMetrics(RowsFor(history.before.sustainability_metrics, other))

\* a company that had two metrics was given one other metric, which is now
\* all it has, while the other company kept its two
C16_Witness ==
    /\ history # NotRun
    /\ history.op = "save_metrics"
    /\ history.exc = "None"
    /\ Len(RowsFor(history.before.sustainability_metrics, history.company_id)) = 2
    /\ history.given = << Metric("Governance", "Board Independence", 6000, 50) >>
    /\ FourFields(get_metrics(history.company_id)) = history.given
    /\ \E other \in CompanyIds \ {history.company_id} : Len(get_metrics(other)) = 2

\* the row save_scores writes for a scores dict
ScoreRow(company_id, scores) ==
    [company_id |-> company_id,
     final_score |-> scores.final_score,
     environmental_score |-> Get(scores, "environmental_score", None),
     social_score |-> Get(scores, "social_score", None),
     governance_score |-> Get(scores, "governance_score", None)]

\* C17: save_scores only adds: when it has returned, every row that was in
\* sustainability_scores is still there, unchanged and in place, with one row
\* more, and get_latest_score of that company is the row just saved, while
\* the latest score of every other company is what it was.  get_latest_score
\* is None only for a company no score was ever saved for.
C17_SaveScoresAppendsLatestWins ==
    /\ (history # NotRun /\ history.op = "save_scores" /\ history.exc = "None") =>
          LET old == history.before.sustainability_scores
          IN  /\ Len(sustainability_scores) = Len(old) + 1
              /\ SubSeq(sustainability_scores, 1, Len(old)) = old
              /\ get_latest_score(history.company_id)
                    = ScoreRow(history.company_id, history.given)
              /\ \A other \in CompanyIds \ {history.company_id} :
                    LET rows == RowsFor(old, other)
                    IN  get_latest_score(other)
                          = IF rows = <<>> THEN None ELSE rows[Len(rows)]
    /\ \A id \in CompanyIds :
          (get_latest_score(id) = None) <=> (RowsFor(sustainability_scores, id) = <<>>)

\* a second score was saved for a company: the first is still in the table
\* and the latest is the second
C17_Witness ==
    /\ history # NotRun
    /\ history.op = "save_scores"
    /\ history.exc = "None"
    /\ Len(RowsFor(sustainability_scores, history.company_id)) = 2
    /\ RowsFor(sustainability_scores, history.company_id)[1].final_score
          # history.given.final_score
    /\ get_latest_score(history.company_id).final_score = history.given.final_score

\* the url and content of research_sources rows
TwoFields(rows) == [i \in 1..Len(rows) |-> [url |-> rows[i].url, content |-> rows[i].content]]

\* the writes of the save_* call in history are in the tables
Committed ==
    CASE history.op = "save_research" ->
            /\ \E c \in companies :
                  /\ c.id = history.company_id
                  /\ c.research_date = now
            /\ TwoFields(RowsFor(research_sources, history.company_id)) = history.given
      [] history.op = "save_metrics" ->
            FourFields(RowsFor(sustainability_metrics, history.company_id)) = history.given
      [] history.op = "save_scores" ->
            /\ sustainability_scores # <<>>
            /\ sustainability_scores[Len(sustainability_scores)]
                  = ScoreRow(history.company_id, history.given)

\* C18: save_research, save_metrics and save_scores are all-or-nothing: after
\* a call that raised, every table is exactly what it was before the call;
\* after a call that returned, all its writes are in the tables.
C18_SaveIsAllOrNothing ==
    history # NotRun =>
        IF history.exc # "None" THEN Snapshot = history.before ELSE Committed

\* save_metrics raised KeyError on the second record of a list, after the
\* DELETE had taken the company's two rows and the loop had written one:
\* the company still has its two rows
C18_Witness ==
    /\ history # NotRun
    /\ history.op = "save_metrics"
    /\ history.exc = "KeyError"
    /\ Len(RowsFor(history.before.sustainability_metrics, history.company_id)) = 2
    /\ Len(RowsFor(save_metrics(history.company_id, history.given).sustainability_metrics,
                   history.company_id)) = 1
    /\ Len(RowsFor(sustainability_metrics, history.company_id)) = 2

-----------------------------------------------------------------------------
(* Properties of analyze_company_helper *)

\* C20: when get_recent_analysis has a bundle for the company,
\* analyze_company_helper calls neither the research agent, nor the extractor,
\* nor the scorer, nor a save_* of the database, leaves every table as it
\* was, and returns success=True, cached=True and the final_score of the
\* company's latest stored score.
C20_CacheHitShortCircuits ==
    (history # NotRun /\ history.op = "analyze_company_helper"
        /\ history.bundle # None) =>
        /\ history.ran = <<>>
        /\ Snapshot = history.before
        /\ history.ret.exc = "None"
        /\ history.ret.success = TRUE
        /\ history.ret.cached = TRUE
        /\ history.ret.score = get_latest_score(history.bundle.company.id).final_score

\* a company analysed the day before is asked for again within the window
C20_Witness ==
    /\ history # NotRun
    /\ history.op = "analyze_company_helper"
    /\ history.bundle # None
    /\ history.ret.cached = TRUE
    /\ now = 1
    /\ history.bundle.company.research_date = 0
    /\ history.ret.score = 5000
    /\ Len(sustainability_scores) = 2

-----------------------------------------------------------------------------
(* Properties of a chat turn *)

\* C19: a turn whose classification gave a non-empty needs_analysis and an
\* intent with a handler of its own has, by the time the script waits for
\* input again, analysed every company of needs_analysis, in order, and then
\* run the handler of the intent.
C19_AnalysisThenHandlerInOneTurn ==
    (/\ chat.pc = "chat_input"
     /\ chat.needs_analysis # <<>>
     /\ chat.intent \in OwnHandlerIntents) =>
        chat.ran = [i \in 1..Len(chat.needs_analysis) |->
                      [call |-> "analyze_company_helper",
                       company |-> chat.needs_analysis[i]]]
                   \o << [call |-> HandlerOf(chat.intent)] >>

-----------------------------------------------------------------------------
(* Properties of research_company *)

\* C21: a failed request to the search service reaches the caller of
\* research_company as an outcome other than that of a search that went
\* through and found nothing, and so does a scrape in which every request
\* failed compared with one in which no page had content.
C21_NetworkFailureIsDistinguishable ==
    (research_result # NotRun /\ research_result.ret # NotRun) =>
        /\ research_result.search.kind = "RequestException" =>
              research_result.ret
                 # research_company(research_result.ret.company,
                                    [kind |-> "ok", data |-> [citations |-> <<>>]],
                                    research_result.scrape)
        /\ (\A u \in Range(Urls) : research_result.scrape[u].kind = "RequestException") =>
              research_result.ret
                 # research_company(research_result.ret.company, research_result.search,
                                    [u \in Range(Urls) |-> Page("")])

-----------------------------------------------------------------------------
(* Properties of get_recent_analysis as a read *)

\* C22: get_recent_analysis only reads: whether the company is not found,
\* too old, incomplete or returned, the companies, sources, metrics and
\* scores stored are after the call what they were before it.
C22_GetRecentAnalysisReadsOnly ==
    cached # NotRun => Snapshot = cached.before

\* the call found a complete analysis too old for the window, and the
\* company, its sources and its score are still stored
C22_Witness ==
    /\ cached # NotRun
    /\ cached.ret = None
    /\ \E c \in companies :
          /\ c.name = cached.company_name
          /\ IsStale(c.research_date, cached.days)
          /\ RowsOf(research_sources, c.id) # {}
          /\ RowsOf(sustainability_scores, c.id) # {}

-----------------------------------------------------------------------------
(* Properties of calculate_category_score on incomplete and on ranged records *)

\* C23: calculate_category_score, handed a record of the target category
\* without 'value' or without 'confidence', does not raise and returns the
\* score and confidence computed with value 50 and confidence 0.5 in the
\* place of the absent field.
C23_MissingFieldUsesFallback ==
    (/\ catResult # NotRun
     /\ \A i \in 1..Len(metrics) : {"category", "metric_name"} \subseteq DOMAIN metrics[i]
     /\ \E i \in 1..Len(metrics) :
           /\ metrics[i].category = catResult.category
           /\ {"value", "confidence"} \ DOMAIN metrics[i] # {}) =>
        /\ Returned(catResult.ret)
        /\ catResult.ret.score = category_score(FilterCategory(metrics, catResult.category))
        /\ catResult.ret.confidence
              = avg_confidence(FilterCategory(metrics, catResult.category))

\* the values of the target category, and their extremes
CategoryValues == {m.value : m \in Range(FilterCategory(metrics, catResult.category))}
MinValue == CHOOSE v \in CategoryValues : \A w \in CategoryValues : v <= w
MaxValue == CHOOSE v \in CategoryValues : \A w \in CategoryValues : v >= w

\* the call was made for a category whose metrics have positive total confidence
ScoredWithWeight ==
    /\ catResult # NotRun
    /\ total_confidence(FilterCategory(metrics, catResult.category)) > 0

\* C29 as stated: for values in [0,100] and confidences in [0,1], the score
\* of a category with positive total confidence lies between the smallest
\* and the largest value of the category's metrics, and the confidence
\* returned lies in [0,1].
C29_ScoreBetweenExtremes ==
    ScoredWithWeight =>
        /\ MinValue <= catResult.ret.score
        /\ catResult.ret.score <= MaxValue
        /\ catResult.ret.confidence \in 0..100

\* C29 amended: the score lies within half a hundredth (5 thousandths) of the
\* interval from the smallest to the largest value of the category's
\* metrics, and in [0,100]; the confidence returned lies in [0,1].
C29_ScoreWithinRoundingOfExtremes ==
    ScoredWithWeight =>
        /\ MinValue - 5 <= catResult.ret.score
        /\ catResult.ret.score <= MaxValue + 5
        /\ catResult.ret.score \in 0..100000
        /\ catResult.ret.confidence \in 0..100

\* one metric of value 33.333: the score is 33.33, under the smallest value
C29_Witness ==
    /\ ScoredWithWeight
    /\ CategoryValues = {33333}
    /\ catResult.ret.score = 33330

-----------------------------------------------------------------------------
(* Properties of an analysis that finds nothing *)

\* C27: when the research agent returns no sources for a company that
\* get_recent_analysis has no bundle for, analyze_company_helper returns
\* success=False and leaves every table as it was: no company row created or
\* re-dated, no source, metric or score row written or deleted.
C27_NoSourcesLeavesDatabase ==
    (history # NotRun /\ history.op = "analyze_company_helper"
        /\ history.bundle = None /\ history.found = <<>>) =>
        /\ history.ret = [exc |-> "None", success |-> FALSE]
        /\ Snapshot = history.before

\* a company analysed on the first day is asked for again after the window,
\* and nothing is found
C27_Witness ==
    /\ history # NotRun
    /\ history.op = "analyze_company_helper"
    /\ history.bundle = None
    /\ history.found = <<>>
    /\ now = MaxDay
    /\ \E c \in companies :
          /\ c.name = history.company_name
          /\ c.research_date = 0
          /\ get_latest_score(c.id) # None
          /\ get_research_sources(c.id) # <<>>

-----------------------------------------------------------------------------
(* Properties of the bundle after runs that sqlite3 stopped *)

\* C26: after any runs of an analysis of a company, runs that an exception
\* left between save_research and save_scores among them, the score record of
\* a bundle get_recent_analysis returns is the one calculate_final_score makes
\* of the metrics of that bundle (score and metrics are of one run, the run
\* that stored the bundle's sources and research_date).
C26_BundleIsOfOneRun ==
    \A n \in CompanyNames :
        \E b \in {get_recent_analysis(n, CACHE_EXPIRY_DAYS)} :
            b # None =>
                b.scores = ScoreRow(b.company.id,
                                    calculate_final_score(FourFields(b.metrics)))

-----------------------------------------------------------------------------
(* Properties of the handlers that delete *)

\* C24: handle_delete(companies) removes every named company that has a row
\* in table companies, however old or incomplete its analysis, reports as
\* not found only names that have no such row, and puts every name passed in
\* exactly one of its two lists.
C24_DeleteRemovesEveryRecordedCompany ==
    (history # NotRun /\ history.op = "handle_delete") =>
        LET recorded == {c.name : c \in history.before.companies}
        IN  /\ \A n \in Range(history.given) \cap recorded :
                   /\ get_company(n) = None
                   /\ n \in Range(history.deleted)
            /\ Range(history.not_found) \cap recorded = {}
            /\ Range(history.deleted) \cup Range(history.not_found) = Range(history.given)
            /\ Range(history.deleted) \cap Range(history.not_found) = {}
            /\ Len(history.deleted) + Len(history.not_found) = Len(history.given)

\* the handlers that delete, and what each of them deleted
Deleting == {"handle_delete", "handle_clear", "sidebar_delete", "sidebar_clear_all"}

DeletedBy(h) ==
    IF h.op \in {"handle_clear", "sidebar_clear_all"}
    THEN {c.name : c \in h.before.companies}
    ELSE Range(h.deleted)

\* C25: when a handler that wrote the database has finished (a fresh analysis
\* saved by analyze_company_helper, handle_delete with a deletion,
\* handle_clear, the sidebar's delete and clear-all), nothing is held in the
\* cache of get_companies_from_db, and what its next call returns lists no
\* company the handler deleted and lists the company just analysed.
C25_WritersClearTheCompanyCache ==
    /\ (history # NotRun /\ history.op = "analyze_company_helper"
           /\ history.ret.exc = "None" /\ history.ret.success /\ ~history.ret.cached) =>
           /\ companies_cache = NotRun
           /\ history.company_name \in DOMAIN get_companies_from_db
    /\ (history # NotRun /\ history.op \in Deleting
           /\ (history.op = "handle_delete" => history.deleted # <<>>)) =>
           /\ companies_cache = NotRun
           /\ DeletedBy(history) \cap DOMAIN get_companies_from_db = {}

\* handle_delete has deleted a company that was analysed and listed
C25_Witness ==
    /\ history # NotRun
    /\ history.op = "handle_delete"
    /\ history.deleted = <<"Tesla">>
    /\ \E c \in history.before.companies : c.name = "Tesla"
    /\ get_company("Tesla") = None
    /\ companies_cache = NotRun

-----------------------------------------------------------------------------
(* Properties of the list of chat messages *)

\* C28: after any chat turns, deletions and clear operations the list of chat
\* messages is not empty and its first entry is the assistant's welcome
\* message; handle_clear and the sidebar's clear-all leave exactly that one
\* message.
C28_WelcomeStaysFirst ==
    /\ chat_messages # <<>>
    /\ chat_messages[1] = Message("assistant", "welcome")
    /\ (history # NotRun /\ history.op \in {"handle_clear", "sidebar_clear_all"}) =>
           chat_messages = initial_chat_messages

\* the chat is cleared after an analysis had added to it
C28_Witness ==
    /\ history # NotRun
    /\ history.op = "handle_clear"
    /\ history.before.sustainability_scores # <<>>
    /\ chat_messages = initial_chat_messages
    /\ companies = {}

-----------------------------------------------------------------------------
(* Properties of the rows of a deleted company *)

\* C30: every source, metric and score row belongs to a company that is in
\* table companies; when handle_delete, handle_clear or a button of the
\* sidebar has deleted a company, no row of it is left; and an analysis of a
\* name that has no company row starts without a score row under the id the
\* name is given, so that get_latest_score shows none of before.
C30_NoRowWithoutCompany ==
    /\ \A r \in Range(research_sources) \cup Range(sustainability_metrics)
                \cup Range(sustainability_scores) : r.company_id \in CompanyIds
    /\ (history # NotRun /\ history.op \in Deleting) =>
           \A n \in DeletedBy(history) :
               /\ get_company(n) = None
               /\ \A id \in {c.id : c \in {d \in history.before.companies : d.name = n}} :
                      /\ RowsFor(research_sources, id) = <<>>
                      /\ RowsFor(sustainability_metrics, id) = <<>>
                      /\ RowsFor(sustainability_scores, id) = <<>>
    /\ (history # NotRun /\ history.op = "analyze_company_helper"
           /\ get_company(history.company_name) # None
           /\ \A c \in history.before.companies : c.name # history.company_name) =>
           /\ RowsFor(history.before.sustainability_scores,
                      get_company(history.company_name).id) = <<>>
           /\ Len(RowsFor(sustainability_scores,
                          get_company(history.company_name).id)) <= 1

\* Tesla is analysed, deleted with its button in the sidebar, and analysed
\* again: the one score row under its id is the row of the second analysis
C30_Witness ==
    /\ history # NotRun
    /\ history.op = "analyze_company_helper"
    /\ history.company_name = "Tesla"
    /\ history.before.companies = {}
    /\ history.ret.exc = "None" /\ history.ret.success /\ ~history.ret.cached
    /\ Len(chat_messages) = 8
    /\ chat_messages[4].content = "analyzed"
    /\ chat_messages[5].content = "Deleted from database: Tesla"
    /\ get_company("Tesla").id = 1
    /\ Len(RowsFor(sustainability_scores, 1)) = 1

=============================================================================
